---- MODULE Spec2Model ----
(***************************************************************************)
(* Model of the structure inspector of the MCP tool server                 *)
(* (src/src/tools/structure_inspector.py, src/src/tools/template_loader.py,*)
(* src/src/core/template_models.py, src/src/core/models.py).               *)
(*                                                                         *)
(* Abstractions:                                                           *)
(*  - a name (file name, dictionary key) is a sequence of segments; the    *)
(*    characters ".", "/", "-" and "_" are always segments of their own,   *)
(*    so str.replace on those characters is computed segment by segment;   *)
(*  - the content of a text file is the set of the patterns (regular       *)
(*    expressions or literal substrings) that occur in it, each pattern    *)
(*    named by a token; re.search / "in" is membership of the token;       *)
(*  - BadRegex is a pattern string that re cannot compile (re.error);      *)
(*  - a directory lists its entries in an order of its own, which glob     *)
(*    follows;                                                             *)
(*  - scores are integer-valued floats, modelled as integers.              *)
(***************************************************************************)
EXTENDS Integers, Sequences, FiniteSets, TLC

VARIABLES
    template_file,   \* the YAML file at TemplateLoader.template_path
    template,        \* BaseStructureInspector.template
    scoring_config,  \* BaseStructureInspector.scoring_config
    fs,              \* the file system below base_path: path -> node
    ops,             \* modifications made to the file system so far (the clock of mtime)
    last_call,       \* latest inspect_microservice call: argument and outcome
    dirty,           \* file system or loaded template changed since last_call
    repeat,          \* last_call repeated the call before it, with nothing changed between
    audit,           \* latest inspect_repository call: argument, what each
                     \* inspect_microservice call inside it gave, and its result
    calc,            \* direct calls of _calculate_score / _determine_status
    loader,          \* a TemplateLoader: its _config cache and its latest call
    guard,           \* latest FilePreventor.can_create_file call: arguments and outcome
    arch,            \* latest AdvancedArchitectureInspector call: directory and results
    health,          \* latest call of a function of health.py: probes made and result
    batch,           \* latest AuditOrchestrator.run_batch_check call: services and summary
    checker,         \* latest TDDPolicyChecker call: repository, commands run, result
    watcher          \* claude_rules module: cache, watcher thread, stop event, callers

vars == <<template_file, template, scoring_config, fs, ops, last_call, dirty, repeat,
          audit, calc, loader, guard, arch, health, batch, checker, watcher>>

----------------------------------------------------------------------------
(* Bounds *)

MaxOps == 1          \* file-system modifications per behaviour
MaxPaths == 2        \* length of the service_paths list of inspect_repository
MaxWarnings == 2     \* warnings per list in a directly constructed ConfigQuality
MaxScoreProbe == 100 \* largest score handed to _determine_status directly

----------------------------------------------------------------------------
(* Python values *)

NoneVal == "<None>"

\* what a call gives back: a value, or the exception it raised
Returned(v) == [raised |-> "", message |-> "", value |-> v]

Raised(exc, message, v) == [raised |-> exc, message |-> message, value |-> v]

\* the empty dict
EmptyDict == [k \in {} |-> 0]

Truthy(v) == v # NoneVal /\ v # ""

Max(a, b) == IF a >= b THEN a ELSE b

RECURSIVE SumSeq(_)
SumSeq(s) == IF s = <<>> THEN 0 ELSE Head(s) + SumSeq(Tail(s))

RECURSIVE Concat(_)
\* "".join(segments)
Concat(segs) == IF segs = <<>> THEN "" ELSE Head(segs) \o Concat(Tail(segs))

\* str.replace(old, new) for a single-character old
str_replace(name, old, new) ==
    [i \in 1..Len(name) |-> IF name[i] = old THEN new ELSE name[i]]

----------------------------------------------------------------------------
(* Names *)

Svc == <<"svc">>

Other == <<"other">>

N_Dockerfile == <<"Dockerfile">>
N_compose    == <<"docker", "-", "compose", ".", "yml">>
N_gitignore  == <<".", "gitignore">>
N_tests      == <<"tests", "/">>
N_readme     == <<"README", ".", "md">>
N_docs       == <<"docs", "/">>

\* field names of StructureChecks, used as keys of the checks dict
K_Dockerfile          == <<"Dockerfile">>
K_docker_compose_yml  == <<"docker", "_", "compose", "_", "yml">>
K_gitignore           == <<"gitignore">>
K_tests_dir_exists    == <<"tests", "_", "dir", "_", "exists">>
K_tests_dir_has_files == <<"tests", "_", "dir", "_", "has", "_", "files">>

ServiceNames == {<<"svc">>, <<"other">>}

\* file names that may appear in a tests directory, with their segments
TestFileNames == {"test_app.py", "example_test.py", "helper.py", "notes.txt"}

Segments(filename) ==
    CASE filename = "test_app.py"     -> <<"test", "_", "app", ".", "py">>
      [] filename = "example_test.py" -> <<"example", "_", "test", ".", "py">>
      [] filename = "helper.py"       -> <<"helper", ".", "py">>
      [] filename = "notes.txt"       -> <<"notes", ".", "txt">>

HasSuffix(segs, suffix) ==
    /\ Len(segs) >= Len(suffix)
    /\ SubSeq(segs, Len(segs) - Len(suffix) + 1, Len(segs)) = suffix

HasPrefix(segs, prefix) ==
    /\ Len(segs) >= Len(prefix)
    /\ SubSeq(segs, 1, Len(prefix)) = prefix

----------------------------------------------------------------------------
(* File system: pathlib.Path operations *)

AbsentNode == [kind |-> "absent", content |-> {}, readable |-> TRUE, mtime |-> 0,
               listing |-> <<>>]

FileNode(c, r, t) == [kind |-> "file", content |-> c, readable |-> r, mtime |-> t,
                      listing |-> <<>>]

DirNode(l, t) == [kind |-> "dir", content |-> {}, readable |-> TRUE, mtime |-> t,
                  listing |-> l]

\* Path("a") / "tests/" drops the trailing slash
PathName(name) ==
    IF name # <<>> /\ name[Len(name)] = "/" THEN SubSeq(name, 1, Len(name) - 1) ELSE name

EntryPaths == {PathName(n) : n \in {N_Dockerfile, N_compose, N_gitignore, N_tests,
                                    N_readme, N_docs}}

FsPaths == {<<s>> : s \in ServiceNames}
           \cup {<<s, e>> : s \in ServiceNames, e \in EntryPaths}
           \cup {<<PathName(N_docs)>>}

\* base_path / a / b : paths are relative to base_path
Join(path, name) == Append(path, PathName(name))

PathExists(path) == path \in DOMAIN fs /\ fs[path].kind # "absent"

PathIsDir(path) == path \in DOMAIN fs /\ fs[path].kind = "dir"

\* Path.read_text raises for a directory or a file that cannot be read
ReadRaises(path) == fs[path].kind # "file" \/ ~fs[path].readable

ReadText(path) == fs[path].content

\* fnmatch of one file name against a glob pattern
Fnmatch(filename, pattern) ==
    CASE pattern = "*.py"      -> HasSuffix(Segments(filename), <<".", "py">>)
      [] pattern = "test_*.py" -> /\ HasPrefix(Segments(filename), <<"test", "_">>)
                                  /\ HasSuffix(Segments(filename), <<".", "py">>)
      [] OTHER                 -> FALSE

\* list(path.glob(pattern)): the matching entries in directory order; nothing for
\* a path that is not a directory
Glob(path, pattern) ==
    IF PathIsDir(path)
    THEN SelectSeq(fs[path].listing, LAMBDA f : Fnmatch(f, pattern))
    ELSE <<>>

----------------------------------------------------------------------------
(* Regular expressions *)

BadRegex == "("

R_EXPOSE   == "EXPOSE\\s+\\d+"
R_COPY_ALL == "COPY\\s+\\.\\s+\\."
R_TOOLS    == "(apt-get|yum|apk)\\s+install.*(vim|nano|curl|wget)"
R_RESTART  == "restart:\\s*(unless-stopped|always|on-failure)"
R_VOLUMES  == "volumes:"
R_NETWORKS == "networks:"
R_DEPENDS  == "depends_on:"

R_TEST_PREFIX == "test_.*\\.py$"
R_TEST_SUFFIX == ".*_test\\.py$"
R_TESTS_DIR   == "tests/.*\\.py$"

re_raises(regex) == regex = BadRegex

\* str(re.error) for BadRegex
ReErrorMessage == "missing ), unterminated subpattern at position 0"

\* re.search(regex, content) on file content
re_search(regex, content) == regex \in content

\* re.match(regex, filename) on a file name
re_match(regex, filename) ==
    CASE regex = R_TEST_PREFIX -> /\ HasPrefix(Segments(filename), <<"test", "_">>)
                                  /\ HasSuffix(Segments(filename), <<".", "py">>)
      [] regex = R_TEST_SUFFIX -> HasSuffix(Segments(filename), <<"_", "test", ".", "py">>)
      [] regex = R_TESTS_DIR   -> FALSE   \* a file name holds no "/"
      [] OTHER                 -> FALSE

----------------------------------------------------------------------------
(* Template models (src/src/core/template_models.py) *)

RequiredFile(name, required, weight, type, must_contain) ==
    [name |-> name, required |-> required, weight |-> weight, type |-> type,
     must_contain |-> must_contain]

QualityPattern(name, regex, content, weight, warning) ==
    [name |-> name, regex |-> regex, content |-> content, weight |-> weight,
     warning |-> warning]

\* an Optional[FileQuality]: None, or an object (always truthy) holding patterns
NoQuality == [present |-> FALSE, patterns |-> <<>>]

FileQuality(patterns) == [present |-> TRUE, patterns |-> patterns]

StructureTemplate(required_files, dockerfile_quality, compose_quality, gitignore_quality, tests_quality) ==
    [required_files |-> required_files,
     dockerfile_quality |-> dockerfile_quality,
     compose_quality |-> compose_quality,
     gitignore_quality |-> gitignore_quality,
     tests_quality |-> tests_quality]

\* ScoringConfig(**scoring_data): a missing thresholds key becomes the empty dict,
\* a missing warning_penalty becomes 2
ScoringConfig(scoring_data) ==
    [thresholds |-> IF "thresholds" \in DOMAIN scoring_data
                    THEN scoring_data.thresholds ELSE EmptyDict,
     warning_penalty |-> IF "warning_penalty" \in DOMAIN scoring_data
                         THEN scoring_data.warning_penalty ELSE 2]

----------------------------------------------------------------------------
(* Template loader (src/src/tools/template_loader.py) *)

\* TemplateLoader._create_default_config
_create_default_config ==
    [default |->
        StructureTemplate(
            << RequiredFile(N_Dockerfile, TRUE, 20, "file", <<>>),
               RequiredFile(N_compose, TRUE, 20, "file", <<>>),
               RequiredFile(N_gitignore, TRUE, 15, "file", <<>>),
               RequiredFile(N_tests, TRUE, 15, "directory", <<"*.py">>) >>,
            FileQuality(
                << QualityPattern("expose_port", R_EXPOSE, NoneVal, 5, NoneVal),
                   QualityPattern("avoid_copy_all", R_COPY_ALL, NoneVal, -10,
                                  "uses COPY . . without .dockerignore") >>),
            NoQuality, NoQuality, NoQuality),
     scoring |->
        ScoringConfig([thresholds |-> [complete |-> 80, incomplete |-> 50, poor |-> 0],
                       warning_penalty |-> 2])]

\* Contents a YAML template file may have (the "default" and "scoring" sections).
Yaml_plain ==
    [kind |-> "ok",
     default |->
        StructureTemplate(
            << RequiredFile(N_Dockerfile, TRUE, 25, "file", <<>>),
               RequiredFile(N_compose, TRUE, 25, "file", <<>>),
               RequiredFile(N_gitignore, TRUE, 25, "file", <<>>),
               RequiredFile(N_tests, TRUE, 25, "directory", <<"*.py">>) >>,
            NoQuality, NoQuality, NoQuality, NoQuality),
     scoring |-> [thresholds |-> [complete |-> 80, incomplete |-> 50, poor |-> 0],
                  warning_penalty |-> 2]]

Yaml_extra ==
    [kind |-> "ok",
     default |->
        StructureTemplate(
            << RequiredFile(N_Dockerfile, TRUE, 20, "file", <<>>),
               RequiredFile(N_compose, TRUE, 20, "file", <<>>),
               RequiredFile(N_gitignore, TRUE, 15, "file", <<>>),
               RequiredFile(N_tests, TRUE, 15, "directory", <<>>),
               RequiredFile(N_readme, FALSE, 10, "file", <<>>),
               RequiredFile(N_docs, FALSE, 10, "directory", <<>>) >>,
            NoQuality,
            FileQuality(
                << QualityPattern("restart_policy", R_RESTART, NoneVal, 5,
                                  "no restart policy") >>),
            FileQuality(
                << QualityPattern("env_files", NoneVal, ".env", 3, "missing .env") >>),
            FileQuality(
                << QualityPattern("test_prefix", R_TEST_PREFIX, NoneVal, 3,
                                  "no test_*.py file") >>)),
     scoring |-> [thresholds |-> [complete |-> 90, incomplete |-> 60, poor |-> 0],
                  warning_penalty |-> 5]]

Yaml_badregex ==
    [kind |-> "ok",
     default |->
        StructureTemplate(
            << RequiredFile(N_Dockerfile, TRUE, 25, "file", <<>>),
               RequiredFile(N_compose, TRUE, 25, "file", <<>>),
               RequiredFile(N_gitignore, TRUE, 25, "file", <<>>),
               RequiredFile(N_tests, TRUE, 25, "directory", <<"*.py">>) >>,
            FileQuality(
                << QualityPattern("expose_port", R_EXPOSE, NoneVal, 0, "EXPOSE missing"),
                   QualityPattern("broken", BadRegex, NoneVal, 0, "broken pattern") >>),
            NoQuality, NoQuality,
            FileQuality(
                << QualityPattern("broken", BadRegex, NoneVal, 0, "broken pattern") >>)),
     scoring |-> [thresholds |-> [complete |-> 80, incomplete |-> 50, poor |-> 0],
                  warning_penalty |-> 2]]

\* a template file with a "default" section and no "scoring" section
Yaml_noscoring ==
    [kind |-> "ok",
     default |-> Yaml_plain.default,
     scoring |-> EmptyDict]

Yaml_missing == [kind |-> "missing", default |-> Yaml_plain.default, scoring |-> EmptyDict]

Yaml_unparsable == [kind |-> "unparsable", default |-> Yaml_plain.default, scoring |-> EmptyDict]

\* a file with no document in it: yaml.safe_load gives None
Yaml_empty == [kind |-> "empty", default |-> Yaml_plain.default, scoring |-> EmptyDict]

\* a file without a "default" section: StructureTemplate(**{}) fails validation
Yaml_invalid == [kind |-> "ok", default |-> EmptyDict, scoring |-> Yaml_plain.scoring]

\* a file with low thresholds
Yaml_lenient ==
    [Yaml_plain EXCEPT !.scoring.thresholds = [complete |-> 30, incomplete |-> 10,
                                               poor |-> 0]]

TemplateFiles == {Yaml_missing, Yaml_unparsable, Yaml_plain, Yaml_extra, Yaml_badregex,
                  Yaml_noscoring, Yaml_empty, Yaml_invalid, Yaml_lenient}

\* the try block of load_templates: the default config for a missing file, the
\* config built from the file's sections, or the exception that reading, parsing
\* or validating raised
TryLoad(file) ==
    IF file.kind = "missing" THEN Returned(_create_default_config)
    ELSE IF file.kind = "unparsable"
         THEN Raised("yaml.YAMLError", "could not parse", _create_default_config)
    ELSE IF file.kind = "empty"
         THEN Raised("AttributeError", "'NoneType' object has no attribute 'get'",
                     _create_default_config)
    ELSE IF "required_files" \notin DOMAIN file.default
         THEN Raised("ValidationError", "required_files: field required",
                     _create_default_config)
    ELSE Returned([default |-> file.default, scoring |-> ScoringConfig(file.scoring)])

\* faulty variant: only the parser's exception is caught
load_templates_yaml_errors_only(file) ==
    IF TryLoad(file).raised = "yaml.YAMLError"
    THEN Returned(_create_default_config) ELSE TryLoad(file)

\* TemplateLoader.load_templates: what the try block returned, or the default
\* config when it raised (except Exception)
load_templates(file) ==
    IF TryLoad(file).raised # "" THEN Returned(_create_default_config) ELSE TryLoad(file)

\* faulty variant: every access reads the file again
get_config_uncached(l, file) == load_templates(file)

\* get_template / get_scoring_config: load when _config is None, then the cache
get_config(l, file) == IF l.cached THEN Returned(l._config) ELSE load_templates(file)

----------------------------------------------------------------------------
(* Core models (src/src/core/models.py) *)

COMPLETE   == "complete"
INCOMPLETE == "incomplete"
POOR       == "poor"

StructureChecks(Dockerfile, docker_compose_yml, gitignore, tests_dir_exists, tests_dir_has_files) ==
    [Dockerfile |-> Dockerfile, docker_compose_yml |-> docker_compose_yml,
     gitignore |-> gitignore, tests_dir_exists |-> tests_dir_exists,
     tests_dir_has_files |-> tests_dir_has_files]

ConfigQuality(dockerfile_best_practices, compose_warnings, gitignore_warnings, tests_warnings) ==
    [dockerfile_best_practices |-> dockerfile_best_practices,
     compose_warnings |-> compose_warnings,
     gitignore_warnings |-> gitignore_warnings,
     tests_warnings |-> tests_warnings]

MicroserviceStructureReport(service, path, structure_checks, config_quality, status, score, recommendations) ==
    [service |-> service, path |-> path, structure_checks |-> structure_checks,
     config_quality |-> config_quality, status |-> status, score |-> score,
     recommendations |-> recommendations]

NoChecks == StructureChecks(FALSE, FALSE, FALSE, FALSE, FALSE)

NoWarnings == ConfigQuality(<<>>, <<>>, <<>>, <<>>)

NoReport == MicroserviceStructureReport(<<>>, <<>>, NoChecks, NoWarnings, "", 0, <<>>)

----------------------------------------------------------------------------
(* BaseStructureInspector (src/src/tools/structure_inspector.py) *)

\* the patterns kept by __init__ when the template has no block of its own
_get_gitignore_patterns ==
    IF template.gitignore_quality.present
    THEN LET ps == SelectSeq(template.gitignore_quality.patterns,
                             LAMBDA p : Truthy(p.content))
         IN  [i \in 1..Len(ps) |-> ps[i].content]
    ELSE <<".env", "__pycache__/", "*.pyc", "node_modules/", "build/", "dist/",
           ".pytest_cache/", "*.log">>

_get_test_patterns ==
    IF template.tests_quality.present
    THEN LET ps == SelectSeq(template.tests_quality.patterns, LAMBDA p : Truthy(p.regex))
         IN  [i \in 1..Len(ps) |-> ps[i].regex]
    ELSE <<R_TEST_PREFIX, R_TEST_SUFFIX, R_TESTS_DIR>>

\* the key under which _check_basic_structure stores an entry
CheckKey(required_file) ==
    IF required_file.type = "directory"
    THEN str_replace(str_replace(required_file.name, "/", "_"), ".", "_")
    ELSE str_replace(required_file.name, ".", "_")

\* "has content" of a directory entry: some must_contain pattern globs something,
\* or no pattern is given
HasFiles(file_path, required_file) ==
    IF PathIsDir(file_path) /\ required_file.must_contain # <<>>
    THEN \E i \in 1..Len(required_file.must_contain) :
            Glob(file_path, required_file.must_contain[i]) # <<>>
    ELSE PathIsDir(file_path)

\* the assignments one template entry makes to the checks dict, in order
EntryChecks(service_path, required_file) ==
    LET file_path == Join(service_path, required_file.name)
    IN  IF required_file.type = "directory"
        THEN <<  <<CheckKey(required_file), PathIsDir(file_path)>> >>
             \o (IF required_file.name = N_tests
                 THEN << <<K_tests_dir_exists, PathIsDir(file_path)>>,
                         <<K_tests_dir_has_files, HasFiles(file_path, required_file)>> >>
                 ELSE <<>>)
        ELSE << <<CheckKey(required_file), PathExists(file_path)>> >>

RECURSIVE ChecksDict(_, _)
\* every assignment to the checks dict, over the template entries in order
ChecksDict(service_path, required_files) ==
    IF required_files = <<>> THEN <<>>
    ELSE EntryChecks(service_path, Head(required_files))
         \o ChecksDict(service_path, Tail(required_files))

\* checks.get(key, False): the last value assigned to key
DictGet(assignments, key) ==
    LET at == {i \in 1..Len(assignments) : assignments[i][1] = key}
    IN  IF at = {} THEN FALSE
        ELSE assignments[CHOOSE i \in at : \A j \in at : j <= i][2]

_check_basic_structure(service_path) ==
    LET checks == ChecksDict(service_path, template.required_files)
    IN  StructureChecks(DictGet(checks, K_Dockerfile),
                        DictGet(checks, K_docker_compose_yml),
                        DictGet(checks, K_gitignore),
                        DictGet(checks, K_tests_dir_exists),
                        DictGet(checks, K_tests_dir_has_files))

\* result of a scan inside a try block: the warnings appended so far, and whether
\* an exception ended the scan
Scan(warnings, raised) == [warnings |-> warnings, raised |-> raised]

RECURSIVE DockerfileTemplateScan(_, _, _)
\* the loop over template.dockerfile_quality.patterns: a pattern with a regex and a
\* warning appends its warning when the regex is absent, and also when it is found
DockerfileTemplateScan(patterns, content, warnings) ==
    IF patterns = <<>> THEN Scan(warnings, FALSE)
    ELSE LET pattern == Head(patterns)
         IN  IF Truthy(pattern.regex) /\ Truthy(pattern.warning)
             THEN IF re_raises(pattern.regex) THEN Scan(warnings, TRUE)
                  ELSE IF ~re_search(pattern.regex, content)
                       THEN DockerfileTemplateScan(Tail(patterns), content,
                                                   Append(warnings, pattern.warning))
                       ELSE DockerfileTemplateScan(Tail(patterns), content,
                                                   Append(warnings, pattern.warning))
             ELSE DockerfileTemplateScan(Tail(patterns), content, warnings)

\* the built-in Dockerfile checks
DockerfileDefaultScan(content) ==
    (IF ~re_search(R_EXPOSE, content) THEN <<"EXPOSE missing">> ELSE <<>>)
    \o (IF re_search(R_COPY_ALL, content)
        THEN <<"uses COPY . . without .dockerignore">> ELSE <<>>)
    \o (IF re_search(R_TOOLS, content) THEN <<"installs unnecessary tools">> ELSE <<>>)

_audit_dockerfile(service_path) ==
    LET dockerfile_path == Join(service_path, N_Dockerfile)
    IN  IF ~PathExists(dockerfile_path) THEN <<>>
        ELSE IF ReadRaises(dockerfile_path) THEN <<"unable to read Dockerfile content">>
        ELSE IF template.dockerfile_quality.present
             THEN LET scan == DockerfileTemplateScan(template.dockerfile_quality.patterns,
                                                     ReadText(dockerfile_path), <<>>)
                  IN  IF scan.raised
                      THEN Append(scan.warnings, "unable to read Dockerfile content")
                      ELSE scan.warnings
             ELSE DockerfileDefaultScan(ReadText(dockerfile_path))

RECURSIVE ComposeTemplateScan(_, _, _)
\* the loop over template.compose_quality.patterns: warn when the regex is absent
ComposeTemplateScan(patterns, content, warnings) ==
    IF patterns = <<>> THEN Scan(warnings, FALSE)
    ELSE LET pattern == Head(patterns)
         IN  IF Truthy(pattern.regex) /\ Truthy(pattern.warning)
             THEN IF re_raises(pattern.regex) THEN Scan(warnings, TRUE)
                  ELSE IF ~re_search(pattern.regex, content)
                       THEN ComposeTemplateScan(Tail(patterns), content,
                                                Append(warnings, pattern.warning))
                       ELSE ComposeTemplateScan(Tail(patterns), content, warnings)
             ELSE ComposeTemplateScan(Tail(patterns), content, warnings)

ComposeDefaultScan(content) ==
    (IF ~re_search(R_RESTART, content) THEN <<"no restart policy">> ELSE <<>>)
    \o (IF ~re_search(R_VOLUMES, content) THEN <<"no volumes defined">> ELSE <<>>)
    \o (IF ~re_search(R_NETWORKS, content) THEN <<"no networks defined">> ELSE <<>>)
    \o (IF ~re_search(R_DEPENDS, content) THEN <<"no depends_on defined">> ELSE <<>>)

_audit_docker_compose(service_path) ==
    LET compose_path == Join(service_path, N_compose)
    IN  IF ~PathExists(compose_path) THEN <<>>
        ELSE IF ReadRaises(compose_path)
             THEN <<"unable to read docker-compose.yml content">>
        ELSE IF template.compose_quality.present
             THEN LET scan == ComposeTemplateScan(template.compose_quality.patterns,
                                                  ReadText(compose_path), <<>>)
                  IN  IF scan.raised
                      THEN Append(scan.warnings, "unable to read docker-compose.yml content")
                      ELSE scan.warnings
             ELSE ComposeDefaultScan(ReadText(compose_path))

RECURSIVE GitignoreTemplateScan(_, _)
\* the loop over template.gitignore_quality.patterns: warn when the literal is absent
GitignoreTemplateScan(patterns, content) ==
    IF patterns = <<>> THEN <<>>
    ELSE LET pattern == Head(patterns)
         IN  (IF Truthy(pattern.content) /\ Truthy(pattern.warning)
                 /\ pattern.content \notin content
              THEN <<pattern.warning>> ELSE <<>>)
             \o GitignoreTemplateScan(Tail(patterns), content)

RECURSIVE GitignoreDefaultScan(_, _)
\* the loop over self.gitignore_patterns
GitignoreDefaultScan(patterns, content) ==
    IF patterns = <<>> THEN <<>>
    ELSE (IF Head(patterns) \notin content
          THEN <<"missing " \o Head(patterns)>> ELSE <<>>)
         \o GitignoreDefaultScan(Tail(patterns), content)

_audit_gitignore(service_path) ==
    LET gitignore_path == Join(service_path, N_gitignore)
    IN  IF ~PathExists(gitignore_path) THEN <<"missing .gitignore file">>
        ELSE IF ReadRaises(gitignore_path) THEN <<"unable to read .gitignore content">>
        ELSE IF template.gitignore_quality.present
             THEN GitignoreTemplateScan(template.gitignore_quality.patterns,
                                        ReadText(gitignore_path))
             ELSE GitignoreDefaultScan(_get_gitignore_patterns, ReadText(gitignore_path))

RECURSIVE TestsTemplateScan(_, _, _)
\* the loop over template.tests_quality.patterns; re.match is outside any try block
TestsTemplateScan(patterns, test_files, warnings) ==
    IF patterns = <<>> THEN Scan(warnings, FALSE)
    ELSE LET pattern == Head(patterns)
         IN  IF Truthy(pattern.regex)
             THEN IF re_raises(pattern.regex) THEN Scan(warnings, TRUE)
                  ELSE LET pattern_matches ==
                               \E i \in 1..Len(test_files) :
                                   re_match(pattern.regex, test_files[i])
                       IN  IF ~pattern_matches /\ Truthy(pattern.warning)
                           THEN TestsTemplateScan(Tail(patterns), test_files,
                                                  Append(warnings, pattern.warning))
                           ELSE TestsTemplateScan(Tail(patterns), test_files, warnings)
             ELSE TestsTemplateScan(Tail(patterns), test_files, warnings)

RECURSIVE TestsDefaultScan(_, _)
\* the loop over the test files, against self.test_patterns
TestsDefaultScan(test_files, test_patterns) ==
    IF test_files = <<>> THEN <<>>
    ELSE LET filename == Head(test_files)
         IN  (IF ~\E i \in 1..Len(test_patterns) : re_match(test_patterns[i], filename)
              THEN <<"test file " \o filename \o " doesn't follow naming convention">>
              ELSE <<>>)
             \o TestsDefaultScan(Tail(test_files), test_patterns)

\* faulty variant: the warnings list is shared between calls, so a call starts from the
\* tests warnings of the call before
_audit_tests_shared_list(service_path) ==
    LET tests_dir  == Join(service_path, <<"tests">>)
        test_files == Glob(tests_dir, "*.py")
        warnings   == IF last_call.called /\ last_call.outcome.raised = ""
                      THEN last_call.outcome.value.config_quality.tests_warnings
                      ELSE <<>>
    IN  IF ~PathExists(tests_dir) THEN Returned(Append(warnings, "tests directory missing"))
        ELSE IF test_files = <<>> THEN Returned(Append(warnings, "no test files found"))
        ELSE IF template.tests_quality.present
             THEN LET scan == TestsTemplateScan(template.tests_quality.patterns,
                                                test_files, warnings)
                  IN  IF scan.raised THEN Raised("re.error", ReErrorMessage, scan.warnings)
                      ELSE Returned(scan.warnings)
             ELSE Returned(warnings \o TestsDefaultScan(test_files, _get_test_patterns))

\* _audit_tests: the warnings, or re.error out of the template loop
_audit_tests(service_path) ==
    LET tests_dir  == Join(service_path, <<"tests">>)
        test_files == Glob(tests_dir, "*.py")
    IN  IF ~PathExists(tests_dir) THEN Returned(<<"tests directory missing">>)
        ELSE IF test_files = <<>> THEN Returned(<<"no test files found">>)
        ELSE IF template.tests_quality.present
             THEN LET scan == TestsTemplateScan(template.tests_quality.patterns,
                                                test_files, <<>>)
                  IN  IF scan.raised THEN Raised("re.error", ReErrorMessage, scan.warnings)
                      ELSE Returned(scan.warnings)
             ELSE Returned(TestsDefaultScan(test_files, _get_test_patterns))

\* the ConfigQuality built from the four audits, unless _audit_tests raised
AuditedQuality(dockerfile_warnings, compose_warnings, gitignore_warnings, tests_warnings) ==
    IF tests_warnings.raised # ""
    THEN Raised(tests_warnings.raised, tests_warnings.message, NoWarnings)
    ELSE Returned(ConfigQuality(dockerfile_warnings, compose_warnings, gitignore_warnings,
                                tests_warnings.value))

\* _audit_config_quality: the four audits in order
_audit_config_quality(service_path) ==
    AuditedQuality(_audit_dockerfile(service_path), _audit_docker_compose(service_path),
                   _audit_gitignore(service_path), _audit_tests(service_path))

RECURSIVE BaseScore(_, _)
\* the loop of _calculate_score over template.required_files
BaseScore(required_files, structure_checks) ==
    IF required_files = <<>> THEN 0
    ELSE LET required_file == Head(required_files)
             counted ==
                 IF required_file.type = "directory"
                 THEN IF required_file.name = N_tests
                      THEN structure_checks.tests_dir_exists
                      ELSE PathExists(Join(<<>>, required_file.name))
                 ELSE \/ required_file.name = N_Dockerfile /\ structure_checks.Dockerfile
                      \/ required_file.name = N_compose
                         /\ structure_checks.docker_compose_yml
                      \/ required_file.name = N_gitignore /\ structure_checks.gitignore
         IN  (IF counted THEN required_file.weight ELSE 0)
             + BaseScore(Tail(required_files), structure_checks)

RECURSIVE PositiveWeights(_)
\* the weights above zero of a pattern list
PositiveWeights(patterns) ==
    IF patterns = <<>> THEN 0
    ELSE (IF Head(patterns).weight > 0 THEN Head(patterns).weight ELSE 0)
         + PositiveWeights(Tail(patterns))

\* the bonuses of _calculate_score: added for every positive pattern of a block
\* the template has, whatever the files contain
Bonuses ==
    (IF template.dockerfile_quality.present
     THEN PositiveWeights(template.dockerfile_quality.patterns) ELSE 0)
    + (IF template.compose_quality.present
       THEN PositiveWeights(template.compose_quality.patterns) ELSE 0)

\* faulty variant: the tests warnings are left out of the count
TotalWarnings_without_tests(config_quality) ==
    Len(config_quality.dockerfile_best_practices) + Len(config_quality.compose_warnings)
    + Len(config_quality.gitignore_warnings)

TotalWarnings(config_quality) ==
    Len(config_quality.dockerfile_best_practices) + Len(config_quality.compose_warnings)
    + Len(config_quality.gitignore_warnings) + Len(config_quality.tests_warnings)

_calculate_score(structure_checks, config_quality) ==
    LET base_score   == BaseScore(template.required_files, structure_checks)
        config_score == Bonuses
                        - TotalWarnings(config_quality) * scoring_config.warning_penalty
    IN  Max(0, base_score + config_score)

\* faulty variant: the thresholds are compared with > instead of >=
_determine_status_strict(score) ==
    LET thresholds == scoring_config.thresholds
    IN  IF "complete" \notin DOMAIN thresholds
        THEN Raised("KeyError", "'complete'", "")
        ELSE IF score > thresholds["complete"] THEN Returned(COMPLETE)
        ELSE IF "incomplete" \notin DOMAIN thresholds
             THEN Raised("KeyError", "'incomplete'", "")
        ELSE IF score > thresholds["incomplete"] THEN Returned(INCOMPLETE)
        ELSE Returned(POOR)

\* _determine_status: KeyError when a threshold it looks up is not in the dict
_determine_status(score) ==
    LET thresholds == scoring_config.thresholds
    IN  IF "complete" \notin DOMAIN thresholds
        THEN Raised("KeyError", "'complete'", "")
        ELSE IF score >= thresholds["complete"] THEN Returned(COMPLETE)
        ELSE IF "incomplete" \notin DOMAIN thresholds
             THEN Raised("KeyError", "'incomplete'", "")
        ELSE IF score >= thresholds["incomplete"] THEN Returned(INCOMPLETE)
        ELSE Returned(POOR)

Recommendation(text, name) == [text |-> text, name |-> name]

RECURSIVE MissingRecommendations(_, _)
\* the loop of _generate_recommendations over template.required_files
MissingRecommendations(required_files, structure_checks) ==
    IF required_files = <<>> THEN <<>>
    ELSE LET required_file == Head(required_files)
             name == required_file.name
         IN  (IF ~required_file.required THEN <<>>
              ELSE IF name = N_Dockerfile /\ ~structure_checks.Dockerfile
                   THEN <<Recommendation("Crear", Concat(name))>>
              ELSE IF name = N_compose /\ ~structure_checks.docker_compose_yml
                   THEN <<Recommendation("Crear", Concat(name))>>
              ELSE IF name = N_gitignore /\ ~structure_checks.gitignore
                   THEN <<Recommendation("Crear", Concat(name))>>
              ELSE IF name = N_tests /\ ~structure_checks.tests_dir_exists
                   THEN <<Recommendation("Crear directorio", Concat(name))>>
              ELSE <<>>)
             \o MissingRecommendations(Tail(required_files), structure_checks)

_generate_recommendations(structure_checks, config_quality) ==
    MissingRecommendations(template.required_files, structure_checks)
    \o (IF config_quality.dockerfile_best_practices # <<>>
        THEN <<Recommendation("Mejorar Dockerfile siguiendo mejores practicas", "")>>
        ELSE <<>>)
    \o (IF config_quality.compose_warnings # <<>>
        THEN <<Recommendation("Mejorar docker-compose.yml", "")>> ELSE <<>>)
    \o (IF config_quality.gitignore_warnings # <<>>
        THEN <<Recommendation("Mejorar .gitignore con patrones estandar", "")>>
        ELSE <<>>)
    \o (IF config_quality.tests_warnings # <<>>
        THEN <<Recommendation("Mejorar estructura y convenciones de tests", "")>>
        ELSE <<>>)

\* the end of inspect_microservice: status, recommendations and the report
ScoredReport(service_path, structure_checks, config_quality, score) ==
    LET status == _determine_status(score)
    IN  IF status.raised # ""
        THEN Raised(status.raised, status.message, NoReport)
        ELSE Returned(MicroserviceStructureReport(
                 service_path, <<<<"base_path">>, service_path>>, structure_checks,
                 config_quality, status.value, score,
                 _generate_recommendations(structure_checks, config_quality)))

\* inspect_microservice once the checks and the audits are made
CheckedReport(service_path, structure_checks, config_quality) ==
    IF config_quality.raised # ""
    THEN Raised(config_quality.raised, config_quality.message, NoReport)
    ELSE ScoredReport(service_path, structure_checks, config_quality.value,
                      _calculate_score(structure_checks, config_quality.value))

\* inspect_microservice(service_path): the report, or the exception raised
inspect_microservice(service_path) ==
    IF ~PathExists(<<service_path>>)
    THEN Raised("ValueError",
                "El directorio " \o Concat(service_path) \o " no existe", NoReport)
    ELSE CheckedReport(service_path, _check_basic_structure(<<service_path>>),
                       _audit_config_quality(<<service_path>>))

_create_error_report(service_path, error_message) ==
    MicroserviceStructureReport(
        service_path, <<service_path>>, NoChecks,
        ConfigQuality(<<"Error: " \o error_message>>, <<>>, <<>>, <<>>),
        POOR, 0, <<Recommendation("Resolver error", error_message)>>)

\* faulty variant: a service whose inspection raised is skipped instead of reported
ServiceReports_skipping(service_paths) ==
    LET outcomes == [i \in 1..Len(service_paths) |->
                        inspect_microservice(service_paths[i])]
        kept     == SelectSeq(outcomes, LAMBDA o : o.raised = "")
    IN  [i \in 1..Len(kept) |-> kept[i].value]

\* one turn of the loop of inspect_repository: the report of the inspection, or
\* the error report when it raised
ServiceReport(service_path, outcome) ==
    IF outcome.raised = "" THEN outcome.value
    ELSE _create_error_report(service_path, outcome.message)

\* the loop of inspect_repository: one report appended per path, in order
ServiceReports(service_paths) ==
    [i \in 1..Len(service_paths) |->
        ServiceReport(service_paths[i], inspect_microservice(service_paths[i]))]

\* faulty variant: only the first report is counted
CountStatus_first_only(services, status) ==
    IF services = <<>> THEN 0
    ELSE IF Head(services).status = status THEN 1 ELSE 0

RECURSIVE CountStatus(_, _)
\* sum(1 for s in services if s.status == status)
CountStatus(services, status) ==
    IF services = <<>> THEN 0
    ELSE (IF Head(services).status = status THEN 1 ELSE 0)
         + CountStatus(Tail(services), status)

\* the aggregate of inspect_repository over the reports; average_score is kept as
\* the sum of the scores over total_services
RepositoryStructureAudit(services) ==
    LET total_services      == Len(services)
        complete_services   == CountStatus(services, COMPLETE)
        incomplete_services == CountStatus(services, INCOMPLETE)
        poor_services       == CountStatus(services, POOR)
    IN  [total_services |-> total_services,
         complete_services |-> complete_services,
         incomplete_services |-> incomplete_services,
         poor_services |-> poor_services,
         score_sum |-> SumSeq([i \in 1..Len(services) |-> services[i].score]),
         average_score |-> IF total_services > 0
                           THEN [num |-> SumSeq([i \in 1..Len(services) |->
                                                    services[i].score]),
                                 den |-> total_services]
                           ELSE [num |-> 0, den |-> 1],
         services |-> services,
         overall_status |-> IF complete_services = total_services THEN COMPLETE
                            ELSE IF poor_services = 0 THEN INCOMPLETE
                            ELSE POOR]

\* inspect_repository(service_paths) for a given list
inspect_repository(service_paths) == RepositoryStructureAudit(ServiceReports(service_paths))

----------------------------------------------------------------------------
(* The file-system calls of an inspection and what they do to the file system *)

FsCall(op, path) == [op |-> op, path |-> path]

RECURSIVE StructureCalls(_, _)
\* the calls of _check_basic_structure
StructureCalls(service_path, required_files) ==
    IF required_files = <<>> THEN <<>>
    ELSE LET required_file == Head(required_files)
             file_path == Join(service_path, required_file.name)
         IN  <<FsCall("exists", file_path)>>
             \o (IF required_file.type = "directory" /\ PathExists(file_path)
                 THEN <<FsCall("is_dir", file_path)>> ELSE <<>>)
             \o (IF required_file.type = "directory" /\ PathIsDir(file_path)
                 THEN [i \in 1..Len(required_file.must_contain) |->
                          FsCall("glob", file_path)]
                 ELSE <<>>)
             \o StructureCalls(service_path, Tail(required_files))

\* the calls of one of the three file audits
AuditCalls(service_path, name) ==
    LET file_path == Join(service_path, name)
    IN  <<FsCall("exists", file_path)>>
        \o (IF PathExists(file_path) THEN <<FsCall("read_text", file_path)>> ELSE <<>>)

RECURSIVE ScoreCalls(_)
\* the calls of _calculate_score: base_path / name for directories other than tests/
ScoreCalls(required_files) ==
    IF required_files = <<>> THEN <<>>
    ELSE (IF Head(required_files).type = "directory" /\ Head(required_files).name # N_tests
          THEN <<FsCall("exists", Join(<<>>, Head(required_files).name))>> ELSE <<>>)
         \o ScoreCalls(Tail(required_files))

\* faulty variant: the tests audit creates tests/ (mkdir with exist_ok) before listing it
InspectCalls_mkdir(service_path) ==
    <<FsCall("exists", <<service_path>>)>>
    \o (IF ~PathExists(<<service_path>>) THEN <<>>
        ELSE StructureCalls(<<service_path>>, template.required_files)
             \o AuditCalls(<<service_path>>, N_Dockerfile)
             \o AuditCalls(<<service_path>>, N_compose)
             \o AuditCalls(<<service_path>>, N_gitignore)
             \o <<FsCall("mkdir", Join(<<service_path>>, <<"tests">>)),
                  FsCall("glob", Join(<<service_path>>, <<"tests">>))>>
             \o ScoreCalls(template.required_files))

\* every file-system call inspect_microservice makes, in order
InspectCalls(service_path) ==
    <<FsCall("exists", <<service_path>>)>>
    \o (IF ~PathExists(<<service_path>>) THEN <<>>
        ELSE StructureCalls(<<service_path>>, template.required_files)
             \o AuditCalls(<<service_path>>, N_Dockerfile)
             \o AuditCalls(<<service_path>>, N_compose)
             \o AuditCalls(<<service_path>>, N_gitignore)
             \o <<FsCall("exists", Join(<<service_path>>, <<"tests">>))>>
             \o (IF PathExists(Join(<<service_path>>, <<"tests">>))
                 THEN <<FsCall("glob", Join(<<service_path>>, <<"tests">>))>> ELSE <<>>)
             \o ScoreCalls(template.required_files))

\* the file system after one pathlib call, made at time t
FsEffect(f, call, t) ==
    CASE call.op \in {"exists", "is_dir", "glob", "read_text"} -> f
      [] call.op = "mkdir" ->
            IF f[call.path].kind = "absent"
            THEN [f EXCEPT ![call.path] = DirNode(<<>>, t)] ELSE f
      [] call.op = "write_text" ->
            [f EXCEPT ![call.path] = FileNode({}, TRUE, t)]

RECURSIVE FsAfter(_, _, _)
\* the file system after a sequence of calls
FsAfter(f, calls, t) ==
    IF calls = <<>> THEN f
    ELSE FsAfter(FsEffect(f, Head(calls), t), Tail(calls), t)

----------------------------------------------------------------------------
(* The environment: other programs changing the files *)

AllGitignore == {".env", "__pycache__/", "*.pyc", "node_modules/", "build/", "dist/",
                 ".pytest_cache/", "*.log"}

\* contents written to a file of the given name
FileContents(name) ==
    CASE name = N_Dockerfile -> {{}, {R_EXPOSE}, {R_COPY_ALL, R_TOOLS}}
      [] name = N_compose    -> {{}, {R_RESTART, R_VOLUMES, R_NETWORKS, R_DEPENDS}}
      [] name = N_gitignore  -> {{}, AllGitignore, {"*.log", "build/"}}
      [] OTHER               -> {{}}

FileNames == {N_Dockerfile, N_compose, N_gitignore, N_readme}

CallIdle == [called |-> FALSE, service |-> <<>>, outcome |-> Returned(NoReport)]

AuditIdle == [called |-> FALSE, service_paths |-> <<>>, inner |-> <<>>,
              value |-> inspect_repository(<<>>)]

GuardIdle == [called |-> FALSE]


CalcIdle == [called |-> "", structure_checks |-> NoChecks, config_quality |-> NoWarnings,
             score |-> 0, before |-> 0, probe |-> 0, status |-> Returned("")]

EnvFrame == /\ ops' = ops + 1
            /\ dirty' = TRUE
            /\ UNCHANGED <<template_file, template, scoring_config, last_call, repeat,
                           audit, calc,
                 loader, guard, arch, health, batch, checker, watcher>>

Mkdir(s) ==
    /\ ops < MaxOps
    /\ ~PathExists(<<s>>)
    /\ fs' = [fs EXCEPT ![<<s>>] = DirNode(<<>>, ops + 1)]
    /\ EnvFrame

WriteFile(s, name) ==
    /\ ops < MaxOps
    /\ PathIsDir(<<s>>)
    /\ fs[Join(<<s>>, name)].kind # "dir"
    /\ \E c \in FileContents(name) :
          fs' = [fs EXCEPT ![Join(<<s>>, name)] = FileNode(c, TRUE, ops + 1)]
    /\ EnvFrame

Chmod(s, name) ==
    /\ ops < MaxOps
    /\ fs[Join(<<s>>, name)].kind = "file"
    /\ fs[Join(<<s>>, name)].readable
    /\ fs' = [fs EXCEPT ![Join(<<s>>, name)].readable = FALSE]
    /\ EnvFrame

Unlink(s, name) ==
    /\ ops < MaxOps
    /\ fs[Join(<<s>>, name)].kind = "file"
    /\ fs' = [fs EXCEPT ![Join(<<s>>, name)] = AbsentNode]
    /\ EnvFrame

\* mkdir of tests/ or docs/ in a service directory, or of docs/ in base_path
MkdirEntry(path) ==
    /\ ops < MaxOps
    /\ ~PathExists(path)
    /\ Len(path) = 2 => PathIsDir(<<path[1]>>)
    /\ fs' = [fs EXCEPT ![path] = DirNode(<<>>, ops + 1)]
    /\ EnvFrame

\* a new file in tests/, at any place of the directory's order
AddTestFile(s, filename) ==
    LET tests_dir == Join(<<s>>, N_tests)
        listing   == fs[tests_dir].listing
    IN  /\ ops < MaxOps
        /\ PathIsDir(tests_dir)
        /\ \A i \in 1..Len(listing) : listing[i] # filename
        /\ \E at \in 0..Len(listing) :
              fs' = [fs EXCEPT ![tests_dir] =
                        DirNode(SubSeq(listing, 1, at) \o <<filename>>
                                \o SubSeq(listing, at + 1, Len(listing)), ops + 1)]
        /\ EnvFrame

EditTemplateFile ==
    /\ ops < MaxOps
    /\ \E file \in TemplateFiles : file # template_file /\ template_file' = file
    /\ ops' = ops + 1
    /\ UNCHANGED <<template, scoring_config, fs, last_call, dirty, repeat, audit, calc,
                 loader, guard, arch, health, batch, checker, watcher>>

----------------------------------------------------------------------------
(* The inspector *)

\* a TemplateLoader after __init__: nothing cached, nothing called
LoaderFresh ==
    [cached |-> FALSE, _config |-> _create_default_config, source |-> Yaml_missing,
     file |-> Yaml_missing, got |-> "", outcome |-> Returned(EmptyDict)]

\* the loader after a get on it while the template file is `file`: the config is
\* cached with the file content it came from, unless loading raised
LoaderAfter(l, file, got, loaded, part) ==
    IF loaded.raised # ""
    THEN [l EXCEPT !.file = file, !.got = got, !.outcome = loaded]
    ELSE [cached |-> TRUE, _config |-> loaded.value,
          source |-> IF l.cached THEN l.source ELSE file,
          file |-> file, got |-> got, outcome |-> Returned(loaded.value[part])]

\* TemplateLoader.get_template
GetTemplate ==
    /\ loader' = LoaderAfter(loader, template_file, "get_template",
                             get_config(loader, template_file), "default")
    /\ UNCHANGED <<template_file, template, scoring_config, fs, ops, last_call, dirty,
                   repeat, audit, calc, guard, arch, health, batch, checker, watcher>>

\* TemplateLoader.get_scoring_config
GetScoringConfig ==
    /\ loader' = LoaderAfter(loader, template_file, "get_scoring_config",
                             get_config(loader, template_file), "scoring")
    /\ UNCHANGED <<template_file, template, scoring_config, fs, ops, last_call, dirty,
                   repeat, audit, calc, guard, arch, health, batch, checker, watcher>>

\* TemplateLoader.reload_templates: the cache is cleared, and what load_templates
\* returns is not kept
ReloadTemplates ==
    /\ loader' = [loader EXCEPT !.cached = FALSE, !.file = template_file,
                                !.got = "reload_templates",
                                !.outcome = load_templates(template_file)]
    /\ UNCHANGED <<template_file, template, scoring_config, fs, ops, last_call, dirty,
                   repeat, audit, calc, guard, arch, health, batch, checker, watcher>>

\* the inspector's loader after __init__ or reload_template: get_template and
\* get_scoring_config have been called on an empty cache
LoaderOfInspector(file) ==
    LoaderAfter(LoaderAfter(LoaderFresh, file, "get_template", load_templates(file),
                            "default"),
                file, "get_scoring_config", load_templates(file), "scoring")

\* BaseStructureInspector.reload_template
ReloadTemplate ==
    LET config == load_templates(template_file).value
    IN  /\ template' = config.default
        /\ scoring_config' = config.scoring
        /\ loader' = LoaderOfInspector(template_file)
        /\ dirty' = (dirty \/ template' # template \/ scoring_config' # scoring_config)
        /\ UNCHANGED <<template_file, fs, ops, last_call, repeat, audit, calc, guard, arch, health, batch, checker, watcher>>

\* a call of inspect_microservice(s)
InspectMicroservice(s) ==
    /\ last_call' = [called |-> TRUE, service |-> s, outcome |-> inspect_microservice(s)]
    /\ repeat' = (last_call.called /\ last_call.service = s /\ ~dirty)
    /\ dirty' = FALSE
    /\ fs' = FsAfter(fs, InspectCalls(s), ops + 1)
    /\ UNCHANGED <<template_file, template, scoring_config, ops, audit, calc,
                 loader, guard, arch, health, batch, checker, watcher>>

RECURSIVE SeqsUpTo(_, _)
\* the lists of at most n elements of S
SeqsUpTo(S, n) ==
    IF n = 0 THEN {<<>>}
    ELSE LET shorter == SeqsUpTo(S, n - 1)
         IN  shorter \cup {Append(q, x) : q \in shorter, x \in S}

\* a call of inspect_repository(service_paths) with a list of paths
InspectRepository ==
    /\ \E service_paths \in SeqsUpTo(ServiceNames, MaxPaths) :
          audit' = [called |-> TRUE, service_paths |-> service_paths,
                    inner |-> [i \in 1..Len(service_paths) |->
                                  inspect_microservice(service_paths[i])],
                    value |-> inspect_repository(service_paths)]
    /\ UNCHANGED <<template_file, template, scoring_config, fs, ops, last_call, dirty,
                   repeat, calc,
                 loader, guard, arch, health, batch, checker, watcher>>

----------------------------------------------------------------------------
(* Direct calls of the scoring functions, as the unit tests make them *)

WarningList(n) == [i \in 1..n |-> "warning"]

WarningLists == {WarningList(n) : n \in 0..MaxWarnings}

AllChecks == {StructureChecks(a, b, c, d, e) : a \in BOOLEAN, b \in BOOLEAN, c \in BOOLEAN,
                                               d \in BOOLEAN, e \in BOOLEAN}

AllQualities == {ConfigQuality(a, b, c, d) : a \in WarningLists, b \in WarningLists,
                                             c \in WarningLists, d \in WarningLists}

WarningFields == {"dockerfile_best_practices", "compose_warnings", "gitignore_warnings",
                  "tests_warnings"}

ScoreFrame == UNCHANGED <<template_file, template, scoring_config, fs, ops, last_call,
                          dirty, repeat, audit,
                 loader, guard, arch, health, batch, checker, watcher>>

\* the arguments of the next direct call
ScoreArgs == {[CalcIdle EXCEPT !.called = "args", !.structure_checks = structure_checks,
                               !.config_quality = config_quality] :
                 structure_checks \in AllChecks, config_quality \in AllQualities}

StatusArgs == {[CalcIdle EXCEPT !.called = "probe", !.probe = score] :
                  score \in 0..MaxScoreProbe}

\* _calculate_score(structure_checks, config_quality) on constructed arguments
CalculateScore ==
    /\ calc.called = "args"
    /\ calc' = [calc EXCEPT !.called = "score",
                            !.score = _calculate_score(calc.structure_checks,
                                                       calc.config_quality)]
    /\ ScoreFrame

\* one more warning in one of the four lists, and _calculate_score again
AddWarning ==
    /\ calc.called \in {"score", "add"}
    /\ \E field \in WarningFields :
          /\ Len(calc.config_quality[field]) < MaxWarnings
          /\ LET config_quality == [calc.config_quality EXCEPT
                                       ![field] = Append(@, "warning")]
             IN  calc' = [calc EXCEPT !.called = "add",
                                      !.config_quality = config_quality,
                                      !.before = calc.score,
                                      !.score = _calculate_score(calc.structure_checks,
                                                                 config_quality)]
    /\ ScoreFrame

\* _determine_status(score) on a given score
DetermineStatus ==
    /\ calc.called \in {"probe", "score", "add"}
    /\ LET score == IF calc.called = "probe" THEN calc.probe ELSE calc.score
       IN  calc' = [calc EXCEPT !.called = "status", !.probe = score,
                                !.status = _determine_status(score)]
    /\ ScoreFrame

----------------------------------------------------------------------------
(* FilePreventor *)

N_Makefile == <<"Makefile">>

N_entrypoint == <<"entrypoint", ".", "sh">>

N_manage == <<"manage", ".", "py">>

\* the markers _is_legitimate_django_entrypoint looks for when the rule gives none
DjangoIndicators ==
    <<N_manage, <<"app", "/", "settings", ".", "py">>, <<"app", "/", "wsgi", ".", "py">>,
      <<"app", "/", "asgi", ".", "py">>, <<"settings", ".", "py">>, <<"wsgi", ".", "py">>,
      <<"asgi", ".", "py">>>>

\* file contents as token sequences; `pattern in content` is a contiguous match
T_from_dot == <<"from", " ", ".">>

T_from_dot_import == <<"from", " ", ".", " ", "import">>

T_from_dotdot_import == <<"from", " ", ".", ".", " ", "import">>

T_parent == <<".", ".", "/">>

\* the policy of _create_default_config
DefaultPolicy ==
    [makefiles |->
        [enabled |-> TRUE, error_message |-> "NO SE PERMITEN MAKEFILES en este proyecto",
         alternatives |-> <<"docker-compose.yml para orquestacion de servicios",
                            "scripts/ para tareas personalizadas",
                            "pyproject.toml para comandos Python">>],
     shell_scripts |->
        [enabled |-> TRUE, allowed_exceptions |-> <<N_entrypoint>>,
         django_microservice_patterns |-> DjangoIndicators,
         error_message |-> "NO SE PERMITEN SCRIPTS .SH excepto entrypoint.sh para microservicios Django",
         alternatives |-> <<"Dockerfile para configuracion de contenedor",
                            "docker-compose.yml para orquestacion",
                            "requirements.txt para dependencias Python">>],
     path_prevention |->
        [enabled |-> TRUE,
         blocked_patterns |-> <<T_parent, <<".", "/">>, <<"*", "/", ".", ".", "/", "*">>,
                                <<"*", "/", ".", "/", "*">>, <<"from", " ", ".", ".">>,
                                T_from_dot, <<"import", " ", ".", ".">>,
                                <<"import", " ", ".">>>>,
         allowed_exceptions |-> <<T_from_dot_import, T_from_dotdot_import>>,
         error_message |-> "NO SE PERMITEN RUTAS RELATIVAS PROBLEMATICAS que salgan del contexto del proyecto",
         alternatives |-> <<"Usa rutas absolutas desde la raiz del proyecto",
                            "Usa imports absolutos: from src.tools import">>],
     other_restricted |-> <<>>]

\* a custom rule of other_restricted: a suffix glob, an exact name, and a glob
\* whose regex does not compile
LogRule(enabled) ==
    [enabled |-> enabled,
     blocked_patterns |-> <<<<"*", ".", "log">>, <<"core">>, <<BadRegex, "*">>>>,
     error_message |-> "no log files", alternatives |-> <<"use logging">>]

\* the (allowed, message, alternatives) tuple
Verdict(allowed, message, alternatives) ==
    [allowed |-> allowed, message |-> message, alternatives |-> alternatives]

\* faulty variant: only the lower-case spelling is recognised
_is_makefile_lowercase(filename) == Head(filename) = "makefile"

\* ^[Mm]akefile$, ^[Mm]akefile\..*$, ^[Gg][Nn][Uu][Mm]akefile$
_is_makefile(filename) ==
    \/ Head(filename) \in {"Makefile", "makefile"}
         /\ (Len(filename) = 1 \/ filename[2] = ".")
    \/ /\ Len(filename) = 1
       /\ Head(filename) \in {g \o n \o u \o m \o "akefile" :
                                 g \in {"G", "g"}, n \in {"N", "n"}, u \in {"U", "u"},
                                 m \in {"M", "m"}}

\* filename.endswith('.sh')
_is_shell_script(filename) == HasSuffix(filename, <<".", "sh">>)

RECURSIVE GlobMatch(_, _)
\* re.match of the pattern with every * replaced by .* : names are compared
\* segment by segment, and nothing anchors the end
GlobMatch(pattern, filename) ==
    IF pattern = <<>> THEN TRUE
    ELSE IF Head(pattern) = "*"
         THEN \E k \in 0..Len(filename) :
                 GlobMatch(Tail(pattern), SubSeq(filename, k + 1, Len(filename)))
    ELSE /\ filename # <<>>
         /\ Head(pattern) = Head(filename)
         /\ GlobMatch(Tail(pattern), Tail(filename))

RECURSIVE _matches_pattern(_, _)
\* "match", "no match", or "re.error" when a glob's regex does not compile
_matches_pattern(filename, patterns) ==
    IF patterns = <<>> THEN "no match"
    ELSE LET pattern == Head(patterns)
             found == IF Head(pattern) = "*" THEN HasSuffix(filename, Tail(pattern))
                      ELSE IF \E i \in 1..Len(pattern) : pattern[i] = "*"
                           THEN GlobMatch(pattern, filename)
                      ELSE filename = pattern
         IN  IF Head(pattern) # "*" /\ (\E i \in 1..Len(pattern) : pattern[i] = "*")
                /\ (\E i \in 1..Len(pattern) : re_raises(pattern[i]))
             THEN "re.error"
             ELSE IF found THEN "match"
             ELSE _matches_pattern(filename, Tail(patterns))

\* file_path.parent
Parent(path) == SubSeq(path, 1, Len(path) - 1)

\* faulty variant: the parent directory is not compared with the service root
_is_legitimate_django_entrypoint_anywhere(file_path, service_path, rule, markers) ==
    /\ file_path[Len(file_path)] = N_entrypoint
    /\ \E i \in 1..Len(rule.allowed_exceptions) : rule.allowed_exceptions[i] = N_entrypoint
    /\ \E i \in 1..Len(DjangoIndicators) : DjangoIndicators[i] \in markers

_is_legitimate_django_entrypoint(file_path, service_path, rule, markers) ==
    /\ Parent(file_path) = service_path
    /\ file_path[Len(file_path)] = N_entrypoint
    /\ \E i \in 1..Len(rule.allowed_exceptions) : rule.allowed_exceptions[i] = N_entrypoint
    /\ LET django_indicators == IF rule.django_microservice_patterns # <<>>
                                THEN rule.django_microservice_patterns
                                ELSE DjangoIndicators
       IN  \E i \in 1..Len(django_indicators) : django_indicators[i] \in markers

\* pattern in content
Contains(content, pattern) ==
    \E i \in 1..(Len(content) - Len(pattern) + 1) :
        SubSeq(content, i, i + Len(pattern) - 1) = pattern

\* some allow-listed substring occurs somewhere in the content
_is_allowed_relative_path(content, pattern, rule) ==
    \E i \in 1..Len(rule.allowed_exceptions) : Contains(content, rule.allowed_exceptions[i])

\* node: the file at file_path (exists, readable, content)
_has_problematic_relative_paths(node, rule) ==
    /\ node.exists
    /\ node.readable
    /\ rule.enabled
    /\ \E i \in 1..Len(rule.blocked_patterns) :
          /\ Contains(node.content, rule.blocked_patterns[i])
          /\ ~_is_allowed_relative_path(node.content, rule.blocked_patterns[i], rule)

RECURSIVE OtherRestricted(_, _)
\* the loop over other_restricted
OtherRestricted(rules, filename) ==
    IF rules = <<>> THEN Returned(Verdict(TRUE, "", <<>>))
    ELSE IF ~Head(rules).enabled THEN OtherRestricted(Tail(rules), filename)
    ELSE IF _matches_pattern(filename, Head(rules).blocked_patterns) = "re.error"
         THEN Raised("re.error", ReErrorMessage, Verdict(FALSE, "", <<>>))
    ELSE IF _matches_pattern(filename, Head(rules).blocked_patterns) = "match"
         THEN Returned(Verdict(FALSE, Head(rules).error_message, Head(rules).alternatives))
    ELSE OtherRestricted(Tail(rules), filename)

\* faulty variant: the content check comes before the two name checks
can_create_file_content_first(policy, file_path, service_path, node, markers) ==
    LET filename == file_path[Len(file_path)]
    IN  IF _has_problematic_relative_paths(node, policy.path_prevention)
        THEN Returned(Verdict(FALSE, policy.path_prevention.error_message,
                              policy.path_prevention.alternatives))
        ELSE IF _is_makefile(filename)
        THEN IF ~policy.makefiles.enabled THEN Returned(Verdict(TRUE, "", <<>>))
             ELSE Returned(Verdict(FALSE, policy.makefiles.error_message,
                                   policy.makefiles.alternatives))
        ELSE IF _is_shell_script(filename)
        THEN IF ~policy.shell_scripts.enabled THEN Returned(Verdict(TRUE, "", <<>>))
             ELSE IF _is_legitimate_django_entrypoint(file_path, service_path,
                                                      policy.shell_scripts, markers)
                  THEN Returned(Verdict(TRUE, "", <<>>))
             ELSE Returned(Verdict(FALSE, policy.shell_scripts.error_message,
                                   policy.shell_scripts.alternatives))
        ELSE OtherRestricted(policy.other_restricted, filename)

\* FilePreventor.can_create_file
can_create_file(policy, file_path, service_path, node, markers) ==
    LET filename == file_path[Len(file_path)]
    IN  IF _is_makefile(filename)
        THEN IF ~policy.makefiles.enabled THEN Returned(Verdict(TRUE, "", <<>>))
             ELSE Returned(Verdict(FALSE, policy.makefiles.error_message,
                                   policy.makefiles.alternatives))
        ELSE IF _is_shell_script(filename)
        THEN IF ~policy.shell_scripts.enabled THEN Returned(Verdict(TRUE, "", <<>>))
             ELSE IF _is_legitimate_django_entrypoint(file_path, service_path,
                                                      policy.shell_scripts, markers)
                  THEN Returned(Verdict(TRUE, "", <<>>))
             ELSE Returned(Verdict(FALSE, policy.shell_scripts.error_message,
                                   policy.shell_scripts.alternatives))
        ELSE IF _has_problematic_relative_paths(node, policy.path_prevention)
        THEN IF ~policy.path_prevention.enabled THEN Returned(Verdict(TRUE, "", <<>>))
             ELSE Returned(Verdict(FALSE, policy.path_prevention.error_message,
                                   policy.path_prevention.alternatives))
        ELSE OtherRestricted(policy.other_restricted, filename)

\* the policies the guard is built with
Policies ==
    {[DefaultPolicy EXCEPT !.makefiles.enabled = makefiles,
                           !.shell_scripts.enabled = shell_scripts,
                           !.shell_scripts.allowed_exceptions = allowed_exceptions,
                           !.shell_scripts.django_microservice_patterns = patterns,
                           !.path_prevention.enabled = path_prevention,
                           !.other_restricted = other_restricted] :
        makefiles \in BOOLEAN, shell_scripts \in BOOLEAN, path_prevention \in BOOLEAN,
        allowed_exceptions \in {<<>>, <<N_entrypoint>>},
        patterns \in {<<>>, <<N_manage>>},
        other_restricted \in {<<>>, <<LogRule(TRUE)>>, <<LogRule(FALSE)>>}}

\* the file names checked
GuardNames ==
    {N_Makefile, <<"makefile">>, <<"GNUmakefile">>, <<"Makefile", ".", "sh">>,
     N_entrypoint, <<"deploy", ".", "sh">>, <<"app", ".", "py">>, <<"debug", ".", "log">>,
     <<"core">>, <<"rules", ".", "mk">>}

\* in the service root, in a subdirectory of it, and outside the service
GuardPaths ==
    {dir \o <<name>> : dir \in {<<Svc>>, <<Svc, <<"scripts">>>>, <<Other>>},
                       name \in GuardNames}

\* what the checked file holds: absent, unreadable, or readable with a content
GuardNodes ==
    {[exists |-> FALSE, readable |-> FALSE, content |-> <<>>],
     [exists |-> TRUE, readable |-> FALSE, content |-> T_parent]}
    \cup {[exists |-> TRUE, readable |-> TRUE, content |-> content] :
            content \in {<<"x", " ", "=", " ", "1">>,
                         T_from_dot_import \o <<" ", "utils">>,
                         <<"sys", ".", "path", ".", "append", "(">> \o T_parent \o <<")">>,
                         T_from_dot_import \o <<" ", "utils", "\n", "open", "(">>
                             \o T_parent \o <<"x", ")">>,
                         <<"from", " ", ".", ".", "core", " ", "import", " ", "models">>,
                         T_from_dotdot_import \o <<" ", "models">>}}

\* a call can_create_file(file_path, service_path) of the guard built with the
\* policy, on a file that is as `node` says; the guard keeps no state between
\* calls, so one call per guard is followed
CanCreateFile ==
    /\ ~guard.called
    /\ \E file_path \in GuardPaths, node \in GuardNodes :
          guard' = [guard EXCEPT !.called = TRUE, !.file_path = file_path, !.node = node,
                                 !.outcome = can_create_file(guard.policy, file_path,
                                                             <<Svc>>, node, guard.markers)]
    /\ UNCHANGED <<template_file, template, scoring_config, fs, ops, last_call, dirty,
                   repeat, audit, calc, loader, arch, health, batch, checker, watcher>>

----------------------------------------------------------------------------
(* AdvancedArchitectureInspector *)

tdd_patterns == [test_methods |-> "def\\s+test_\\w+"]

integration_patterns ==
    [integration_markers |-> "@pytest\\.mark\\.integration|@integration|@e2e",
     docker_compose_tests |-> "docker-compose.*test|docker-compose.*integration"]

faker_patterns ==
    [faker_imports |-> "from\\s+faker\\s+import|import\\s+faker",
     faker_usage |-> "Faker\\(\\)|faker\\."]

scalability_patterns ==
    [async_await |-> "async\\s+def|await\\s+",
     connection_pooling |-> "pool|connection_pool|max_connections",
     caching |-> "cache|redis|memcached|@lru_cache",
     horizontal_scaling |-> "replicas|instances|scale|kubernetes|docker_swarm"]

\* an entry of the service tree: dir is "root" or "tests"; content is the set of
\* regexes that match the text; functions, classes and imports are what
\* re.findall of the dry_patterns gives
Entry(dir, name, kind, readable, content, functions, classes, imports) ==
    [dir |-> dir, name |-> name, kind |-> kind, readable |-> readable, content |-> content,
     functions |-> functions, classes |-> classes, imports |-> imports]

\* the entries a service tree is made of, in the order rglob walks them
Catalogue ==
    <<Entry("root", <<"app", ".", "py">>, "file", TRUE,
            {scalability_patterns.async_await, scalability_patterns.caching},
            <<"main", "load">>, <<"App">>, <<<<"os", "path">>>>),
      Entry("root", <<"util", ".", "py">>, "file", TRUE,
            {faker_patterns.faker_imports}, <<"load">>, <<>>, <<>>),
      Entry("root", <<"docker", "-", "compose", ".", "test", ".", "yml">>, "file", TRUE,
            {integration_patterns.docker_compose_tests,
             scalability_patterns.horizontal_scaling}, <<>>, <<>>, <<>>),
      Entry("root", <<"pytest", ".", "ini">>, "file", TRUE, {}, <<>>, <<>>, <<>>),
      Entry("tests", <<"test", "_", "app", ".", "py">>, "file", TRUE,
            {tdd_patterns.test_methods, faker_patterns.faker_usage,
             integration_patterns.integration_markers},
            <<"test_main">>, <<>>, <<>>),
      Entry("tests", <<"test", "_", "integration", ".", "py">>, "file", FALSE,
            {integration_patterns.integration_markers}, <<>>, <<>>, <<>>),
      Entry("tests", <<"conftest", ".", "py">>, "dir", TRUE, {}, <<>>, <<>>, <<>>)>>

\* the service directories analysed: absent, or holding some of the entries
Trees ==
    {[exists |-> FALSE, entries |-> <<>>]}
    \cup {[exists |-> TRUE,
           entries |-> SelectSeq(Catalogue, LAMBDA e : e \in kept)] :
            kept \in SUBSET {Catalogue[i] : i \in 1..Len(Catalogue)}}

\* fnmatch of a name against the patterns the inspector globs with
NameMatches(name, pattern) ==
    CASE pattern = "*.py"      -> HasSuffix(name, <<".", "py">>)
      [] pattern = "*.yml"     -> HasSuffix(name, <<".", "yml">>)
      [] pattern = "*.yaml"    -> HasSuffix(name, <<".", "yaml">>)
      [] pattern = "test_*.py" -> HasPrefix(name, <<"test", "_">>)
                                  /\ HasSuffix(name, <<".", "py">>)
      [] pattern = "*_test.py" -> HasSuffix(name, <<"_", "test", ".", "py">>)
      [] pattern = "*integration*.py" ->
            /\ HasSuffix(name, <<".", "py">>)
            /\ \E i \in 1..Len(name) : name[i] = "integration"
      [] pattern = "docker-compose*.yml" ->
            /\ HasPrefix(name, <<"docker", "-", "compose">>)
            /\ HasSuffix(name, <<".", "yml">>)

\* list(path.rglob(pattern)) for the service root ("root") or its tests directory
rglob(tree, dir, pattern) ==
    SelectSeq(tree.entries,
              LAMBDA e : (dir = "root" \/ e.dir = dir) /\ NameMatches(e.name, pattern))

\* read_text succeeds
Reads(e) == e.kind = "file" /\ e.readable

\* some file of the list can be read and matches the regex
AnySearch(files, regex) ==
    \E i \in 1..Len(files) : Reads(files[i]) /\ re_search(regex, files[i].content)

RECURSIVE Found(_, _)
\* the findall results of the readable files, one list
Found(files, what) ==
    IF files = <<>> THEN <<>>
    ELSE (IF Reads(Head(files)) THEN Head(files)[what] ELSE <<>>)
         \o Found(Tail(files), what)

\* len(names) != len(set(names))
Duplicates(names) == Len(names) # Cardinality({names[i] : i \in 1..Len(names)})

\* (service_path / "tests").exists()
TestsExists(tree) == \E i \in 1..Len(tree.entries) : tree.entries[i].dir = "tests"

_analyze_dry_compliance(tree) ==
    /\ rglob(tree, "root", "*.py") # <<>>
    /\ ~Duplicates(Found(rglob(tree, "root", "*.py"), "functions"))
    /\ ~Duplicates(Found(rglob(tree, "root", "*.py"), "classes"))
    /\ ~Duplicates(Found(rglob(tree, "root", "*.py"), "imports"))

\* test_files[:3]
TestFilesChecked == 3

_analyze_tdd_implementation(tree) ==
    LET test_files == rglob(tree, "root", "test_*.py") \o rglob(tree, "root", "*_test.py")
    IN  /\ test_files # <<>>
        /\ TestsExists(tree)
        /\ \E i \in 1..Len(tree.entries) :
              /\ tree.entries[i].dir = "root"
              /\ tree.entries[i].name \in {<<"pytest", ".", "ini">>,
                                           <<"pyproject", ".", "toml">>,
                                           <<"setup", ".", "cfg">>}
        /\ AnySearch(SubSeq(test_files, 1, IF Len(test_files) < TestFilesChecked
                                           THEN Len(test_files) ELSE TestFilesChecked),
                     tdd_patterns.test_methods)

_analyze_integration_tests(tree) ==
    LET integration_test_files ==
            rglob(tree, "root", "*integration*.py")
            \o (IF TestsExists(tree) THEN rglob(tree, "tests", "*integration*.py")
                ELSE <<>>)
    IN  \/ Len(integration_test_files) > 0
        \/ AnySearch(integration_test_files, integration_patterns.integration_markers)
        \/ AnySearch(rglob(tree, "root", "docker-compose*.yml"),
                     integration_patterns.docker_compose_tests)

_analyze_faker_usage(tree) ==
    /\ rglob(tree, "root", "*.py") # <<>>
    /\ AnySearch(rglob(tree, "root", "*.py"), faker_patterns.faker_imports)
    /\ AnySearch(rglob(tree, "root", "*.py"), faker_patterns.faker_usage)

_analyze_scalability_features(tree) ==
    LET python_files == rglob(tree, "root", "*.py")
        yaml_files == rglob(tree, "root", "*.yml") \o rglob(tree, "root", "*.yaml")
    IN  /\ python_files # <<>> \/ yaml_files # <<>>
        /\ Cardinality(
              {feature \in {"async_await", "caching", "connection_pooling"} :
                  AnySearch(python_files, scalability_patterns[feature])}
              \cup (IF AnySearch(yaml_files, scalability_patterns.horizontal_scaling)
                    THEN {"horizontal_scaling"} ELSE {})) >= 2

PrincipleViolation(principle, severity, description) ==
    [principle |-> principle, severity |-> severity, description |-> description]

\* faulty variant: the scalability violation is graded HIGH
_detect_architecture_violations_graded_high(tree) ==
    (IF ~_analyze_dry_compliance(tree)
     THEN <<PrincipleViolation("DRY", "HIGH", "Detectadas duplicaciones")>> ELSE <<>>)
    \o (IF ~_analyze_tdd_implementation(tree)
        THEN <<PrincipleViolation("TDD", "CRITICAL", "No se implementa TDD")>> ELSE <<>>)
    \o (IF ~_analyze_integration_tests(tree)
        THEN <<PrincipleViolation("INTEGRATION_TESTS", "HIGH",
                                  "Faltan pruebas de integracion")>> ELSE <<>>)
    \o (IF ~_analyze_faker_usage(tree)
        THEN <<PrincipleViolation("FAKER_DATA", "MEDIUM", "No se utiliza Faker")>>
        ELSE <<>>)
    \o (IF ~_analyze_scalability_features(tree)
        THEN <<PrincipleViolation("SCALABILITY", "HIGH",
                                  "Faltan caracteristicas de escalabilidad")>>
        ELSE <<>>)

_detect_architecture_violations(tree) ==
    (IF ~_analyze_dry_compliance(tree)
     THEN <<PrincipleViolation("DRY", "HIGH", "Detectadas duplicaciones")>> ELSE <<>>)
    \o (IF ~_analyze_tdd_implementation(tree)
        THEN <<PrincipleViolation("TDD", "CRITICAL", "No se implementa TDD")>> ELSE <<>>)
    \o (IF ~_analyze_integration_tests(tree)
        THEN <<PrincipleViolation("INTEGRATION_TESTS", "HIGH",
                                  "Faltan pruebas de integracion")>> ELSE <<>>)
    \o (IF ~_analyze_faker_usage(tree)
        THEN <<PrincipleViolation("FAKER_DATA", "MEDIUM", "No se utiliza Faker")>>
        ELSE <<>>)
    \o (IF ~_analyze_scalability_features(tree)
        THEN <<PrincipleViolation("SCALABILITY", "MEDIUM",
                                  "Faltan caracteristicas de escalabilidad")>>
        ELSE <<>>)

\* faulty variant: the result is not clamped at 0
_calculate_architecture_score_unclamped(drp, tdd, integration, faker, scalability, violations) ==
    (IF drp THEN 20 ELSE 0) + (IF tdd THEN 25 ELSE 0) + (IF integration THEN 20 ELSE 0)
    + (IF faker THEN 15 ELSE 0) + (IF scalability THEN 20 ELSE 0) - violations * 5

_calculate_architecture_score(drp, tdd, integration, faker, scalability, violations) ==
    Max(0, (IF drp THEN 20 ELSE 0) + (IF tdd THEN 25 ELSE 0)
           + (IF integration THEN 20 ELSE 0) + (IF faker THEN 15 ELSE 0)
           + (IF scalability THEN 20 ELSE 0) - violations * 5)

_determine_architecture_status(score) ==
    IF score >= 80 THEN "EXCELLENT"
    ELSE IF score >= 60 THEN "GOOD"
    ELSE IF score >= 40 THEN "FAIR"
    ELSE IF score >= 20 THEN "POOR"
    ELSE "CRITICAL"

\* len([v for v in violations if v.severity == severity])
CountSeverity(violations, severity) ==
    Cardinality({i \in 1..Len(violations) : violations[i].severity = severity})

\* the ArchitectureAnalysis built from the five flags and the violations list
ArchitectureAnalysis(drp, tdd, integration, faker, scalability, violations) ==
    [drp_compliance |-> drp, tdd_implementation |-> tdd, integration_tests |-> integration,
     faker_data_usage |-> faker, scalability_features |-> scalability,
     violations |-> violations,
     total_violations |-> Len(violations),
     critical_violations |-> CountSeverity(violations, "CRITICAL"),
     high_violations |-> CountSeverity(violations, "HIGH"),
     medium_violations |-> CountSeverity(violations, "MEDIUM"),
     low_violations |-> CountSeverity(violations, "LOW"),
     architecture_score |->
        _calculate_architecture_score(drp, tdd, integration, faker, scalability,
                                      Len(violations)),
     architecture_status |->
        _determine_architecture_status(
            _calculate_architecture_score(drp, tdd, integration, faker, scalability,
                                          Len(violations)))]

\* analyze_microservice_architecture: the flags come from the directory as it is
\* at lines 648-652, the violations from the directory as it is at line 655
analyze_microservice_architecture(tree, later) ==
    IF ~tree.exists THEN Raised("ValueError", "El directorio no existe",
                                ArchitectureAnalysis(FALSE, FALSE, FALSE, FALSE, FALSE, <<>>))
    ELSE Returned(ArchitectureAnalysis(_analyze_dry_compliance(tree),
                                       _analyze_tdd_implementation(tree),
                                       _analyze_integration_tests(tree),
                                       _analyze_faker_usage(tree),
                                       _analyze_scalability_features(tree),
                                       _detect_architecture_violations(later)))

TODOAction(priority, principle, action, dependencies) ==
    [priority |-> priority, principle |-> principle, action |-> action,
     dependencies |-> dependencies]

\* priority_order.get(priority, 4)
PriorityRank(priority) ==
    CASE priority = "CRITICAL" -> 0
      [] priority = "HIGH"     -> 1
      [] priority = "MEDIUM"   -> 2
      [] priority = "LOW"      -> 3
      [] OTHER                 -> 4

RECURSIVE SortedFrom(_, _)
\* list.sort(key=rank): a stable sort, the actions of each rank in the order they had
SortedFrom(todo_actions, rank) ==
    IF rank > 4 THEN <<>>
    ELSE SelectSeq(todo_actions, LAMBDA a : PriorityRank(a.priority) = rank)
         \o SortedFrom(todo_actions, rank + 1)

\* faulty variant: the list is returned in generation order
generate_todo_actions_unsorted(analysis) ==
    (IF ~analysis.drp_compliance
     THEN <<TODOAction("HIGH", "DRY", "Refactorizar codigo duplicado", <<>>)>> ELSE <<>>)
    \o (IF ~analysis.tdd_implementation
        THEN <<TODOAction("CRITICAL", "TDD", "Implementar Test Driven Development", <<>>)>>
        ELSE <<>>)
    \o (IF ~analysis.integration_tests
        THEN <<TODOAction("HIGH", "INTEGRATION_TESTS", "Agregar pruebas de integracion",
                          <<"TDD implementation">>)>>
        ELSE <<>>)
    \o (IF ~analysis.faker_data_usage
        THEN <<TODOAction("MEDIUM", "FAKER_DATA", "Integrar Faker para datos de prueba",
                          <<"TDD implementation">>)>>
        ELSE <<>>)
    \o (IF ~analysis.scalability_features
        THEN <<TODOAction("MEDIUM", "SCALABILITY",
                          "Implementar caracteristicas de escalabilidad",
                          <<"TDD implementation">>)>>
        ELSE <<>>)

generate_todo_actions(analysis) ==
    SortedFrom(
        (IF ~analysis.drp_compliance
         THEN <<TODOAction("HIGH", "DRY", "Refactorizar codigo duplicado", <<>>)>>
         ELSE <<>>)
        \o (IF ~analysis.tdd_implementation
            THEN <<TODOAction("CRITICAL", "TDD", "Implementar Test Driven Development",
                              <<>>)>>
            ELSE <<>>)
        \o (IF ~analysis.integration_tests
            THEN <<TODOAction("HIGH", "INTEGRATION_TESTS", "Agregar pruebas de integracion",
                              <<"TDD implementation">>)>>
            ELSE <<>>)
        \o (IF ~analysis.faker_data_usage
            THEN <<TODOAction("MEDIUM", "FAKER_DATA", "Integrar Faker para datos de prueba",
                              <<"TDD implementation">>)>>
            ELSE <<>>)
        \o (IF ~analysis.scalability_features
            THEN <<TODOAction("MEDIUM", "SCALABILITY",
                              "Implementar caracteristicas de escalabilidad",
                              <<"TDD implementation">>)>>
            ELSE <<>>),
        0)

MaxViolationsProbe == 6

\* nothing called: no directory, no arguments
ArchIdle ==
    [called |-> "", tree |-> [exists |-> FALSE, entries |-> <<>>],
     later |-> [exists |-> FALSE, entries |-> <<>>],
     outcome |-> Returned(ArchitectureAnalysis(FALSE, FALSE, FALSE, FALSE, FALSE, <<>>)),
     violations |-> 0, score |-> 0, status |-> "", todo_actions |-> <<>>]

ArchFrame ==
    UNCHANGED <<template_file, template, scoring_config, fs, ops, last_call, dirty,
                repeat, audit, calc, loader, guard, health, batch, checker, watcher>>

\* the directory with one of its entries deleted
Without(tree, i) ==
    [tree EXCEPT !.entries = SubSeq(tree.entries, 1, i - 1)
                             \o SubSeq(tree.entries, i + 1, Len(tree.entries))]

\* analyze_microservice_architecture on the directory; another program may delete
\* an entry between the five analyses and the detection of violations
AnalyzeArchitecture ==
    /\ arch.called = "tree"
    /\ \E later \in {arch.tree} \cup {Without(arch.tree, i) : i \in 1..Len(arch.tree.entries)} :
          arch' = [arch EXCEPT !.called = "analyze", !.later = later,
                               !.outcome = analyze_microservice_architecture(arch.tree,
                                                                             later)]
    /\ ArchFrame

\* _calculate_architecture_score on constructed arguments
CalculateArchitectureScore ==
    /\ arch.called = "args"
    /\ arch' = [arch EXCEPT !.called = "score",
                            !.score = _calculate_architecture_score(
                                          arch.outcome.value.drp_compliance,
                                          arch.outcome.value.tdd_implementation,
                                          arch.outcome.value.integration_tests,
                                          arch.outcome.value.faker_data_usage,
                                          arch.outcome.value.scalability_features,
                                          arch.violations)]
    /\ ArchFrame

\* _determine_architecture_status on a computed or a given score
DetermineArchitectureStatus ==
    /\ arch.called \in {"score", "probe"}
    /\ arch' = [arch EXCEPT !.called = "status",
                            !.status = _determine_architecture_status(arch.score)]
    /\ ArchFrame

\* generate_todo_actions on a returned or a constructed analysis
GenerateTodoActions ==
    /\ arch.called \in {"analyze", "args"}
    /\ arch.outcome.raised = ""
    /\ arch' = [arch EXCEPT !.called = "todo",
                            !.todo_actions = generate_todo_actions(arch.outcome.value)]
    /\ ArchFrame

----------------------------------------------------------------------------
(* Initial states *)

EmptyFs == [path \in FsPaths |-> AbsentNode]

\* a service directory with nothing in it
EmptyService(f, s) == [f EXCEPT ![<<s>>] = DirNode(<<>>, 0)]

\* empty Dockerfile, docker-compose.yml, .gitignore and tests/test_app.py
MinimalService(f, s) ==
    [EmptyService(f, s) EXCEPT
        ![Join(<<s>>, N_Dockerfile)] = FileNode({}, TRUE, 0),
        ![Join(<<s>>, N_compose)]    = FileNode({}, TRUE, 0),
        ![Join(<<s>>, N_gitignore)]  = FileNode({}, TRUE, 0),
        ![Join(<<s>>, N_tests)]      = DirNode(<<"test_app.py">>, 0)]

\* the complete service of the unit tests
FullService(f, s) ==
    [EmptyService(f, s) EXCEPT
        ![Join(<<s>>, N_Dockerfile)] = FileNode({R_EXPOSE}, TRUE, 0),
        ![Join(<<s>>, N_compose)]    =
            FileNode({R_RESTART, R_VOLUMES, R_NETWORKS, R_DEPENDS}, TRUE, 0),
        ![Join(<<s>>, N_gitignore)]  = FileNode(AllGitignore, TRUE, 0),
        ![Join(<<s>>, N_tests)]      = DirNode(<<"test_app.py">>, 0),
        ![Join(<<s>>, N_readme)]     = FileNode({}, TRUE, 0),
        ![Join(<<s>>, N_docs)]       = DirNode(<<>>, 0)]

\* a service with findings in every audit
MessyService(f, s) ==
    [EmptyService(f, s) EXCEPT
        ![Join(<<s>>, N_Dockerfile)] = FileNode({R_COPY_ALL, R_TOOLS}, TRUE, 0),
        ![Join(<<s>>, N_compose)]    = FileNode({}, FALSE, 0),
        ![Join(<<s>>, N_gitignore)]  = FileNode({"*.log", "build/"}, TRUE, 0),
        ![Join(<<s>>, N_tests)]      = DirNode(<<"helper.py", "notes.txt">>, 0)]

\* the variables of the inspector, the loader, the guard and the architecture
\* inspector are left alone
InspectorFrame ==
    UNCHANGED <<template_file, template, scoring_config, fs, ops, last_call, dirty,
                repeat, audit, calc, loader, guard, arch>>

----------------------------------------------------------------------------
(* health.py *)

\* Status
HEALTHY == "healthy"
UNHEALTHY == "unhealthy"
DEGRADED == "degraded"

MaxDelay == 5        \* the longest an endpoint takes to answer (bound)

\* the max_latency_ms arguments followed
MaxLatencies == {1, 2}

\* CheckResult; client_timeout is the timeout the httpx client of the probe was
\* built with (timeout_ms / 1000)
CheckResult(status, latency_ms, response_code, error_message, timeout_ms) ==
    [status |-> status, latency_ms |-> latency_ms, response_code |-> response_code,
     error_message |-> error_message, client_timeout |-> timeout_ms]

\* what a GET meets: an answer below 400, an answer from 400 up,
\* httpx.TimeoutException, or another exception, after `delay`
Endpoints == [kind : {"ok", "http error", "timeout", "refused"}, delay : 0..MaxDelay]

\* the timeouts of httpx are per phase of the request: an answer may take longer
\* in all than the timeout, a TimeoutException is not raised earlier than it
EndpointsFor(timeout_ms) ==
    {endpoint \in Endpoints : endpoint.kind = "timeout" => endpoint.delay >= timeout_ms}

\* http_check
http_check(timeout_ms, endpoint) ==
    IF endpoint.kind = "ok"
    THEN CheckResult(HEALTHY, endpoint.delay, "200", NoneVal, timeout_ms)
    ELSE IF endpoint.kind = "http error"
    THEN CheckResult(UNHEALTHY, endpoint.delay, "500", "HTTP 500", timeout_ms)
    ELSE IF endpoint.kind = "timeout"
    THEN CheckResult(UNHEALTHY, endpoint.delay, NoneVal, "Timeout", timeout_ms)
    ELSE CheckResult(UNHEALTHY, endpoint.delay, NoneVal, "Connection refused", timeout_ms)

\* faulty variant: a latency equal to the threshold degrades
readiness_check_inclusive(max_latency_ms, endpoint) ==
    IF /\ http_check(max_latency_ms * 2, endpoint).status = HEALTHY
       /\ http_check(max_latency_ms * 2, endpoint).latency_ms >= max_latency_ms
    THEN [http_check(max_latency_ms * 2, endpoint) EXCEPT
             !.status = DEGRADED, !.error_message = "Latencia alta"]
    ELSE http_check(max_latency_ms * 2, endpoint)

\* readiness_check
readiness_check(max_latency_ms, endpoint) ==
    IF /\ http_check(max_latency_ms * 2, endpoint).status = HEALTHY
       /\ http_check(max_latency_ms * 2, endpoint).latency_ms > max_latency_ms
    THEN [http_check(max_latency_ms * 2, endpoint) EXCEPT
             !.status = DEGRADED, !.error_message = "Latencia alta"]
    ELSE http_check(max_latency_ms * 2, endpoint)

\* liveness_check
liveness_check(max_latency_ms, endpoint) ==
    IF /\ http_check(max_latency_ms * 2, endpoint).status = HEALTHY
       /\ http_check(max_latency_ms * 2, endpoint).latency_ms > max_latency_ms
    THEN [http_check(max_latency_ms * 2, endpoint) EXCEPT
             !.status = UNHEALTHY, !.error_message = "Latencia critica"]
    ELSE http_check(max_latency_ms * 2, endpoint)

\* faulty variant: only an UNHEALTHY result makes the service unhealthy
comprehensive_health_check_tolerant(max_latency_ms, endpoints) ==
    [readiness |-> readiness_check(max_latency_ms, endpoints[1]),
     liveness |-> liveness_check(max_latency_ms, endpoints[2]),
     overall_status |->
        IF /\ readiness_check(max_latency_ms, endpoints[1]).status # UNHEALTHY
           /\ liveness_check(max_latency_ms, endpoints[2]).status # UNHEALTHY
        THEN "healthy" ELSE "unhealthy"]

\* comprehensive_health_check; endpoints[i] is what the i-th request of the
\* call meets
comprehensive_health_check(max_latency_ms, endpoints) ==
    [readiness |-> readiness_check(max_latency_ms, endpoints[1]),
     liveness |-> liveness_check(max_latency_ms, endpoints[2]),
     overall_status |->
        IF /\ readiness_check(max_latency_ms, endpoints[1]).status = HEALTHY
           /\ liveness_check(max_latency_ms, endpoints[2]).status = HEALTHY
        THEN "healthy" ELSE "unhealthy"]

HealthIdle == [called |-> ""]

\* the functions of health.py keep nothing between calls: one call per behaviour
\* is followed
HealthFrame == InspectorFrame /\ UNCHANGED <<batch, checker, watcher>>

\* a call readiness_check(base_url, path, max_latency_ms)
ReadinessCheck ==
    /\ health.called = ""
    /\ \E max_latency_ms \in MaxLatencies :
          \E endpoint \in EndpointsFor(max_latency_ms * 2) :
             health' = [called |-> "readiness", max_latency_ms |-> max_latency_ms,
                        endpoints |-> <<endpoint>>,
                        result |-> readiness_check(max_latency_ms, endpoint)]
    /\ HealthFrame

\* a call liveness_check(base_url, path, max_latency_ms)
LivenessCheck ==
    /\ health.called = ""
    /\ \E max_latency_ms \in MaxLatencies :
          \E endpoint \in EndpointsFor(max_latency_ms * 2) :
             health' = [called |-> "liveness", max_latency_ms |-> max_latency_ms,
                        endpoints |-> <<endpoint>>,
                        result |-> liveness_check(max_latency_ms, endpoint)]
    /\ HealthFrame

\* a call comprehensive_health_check(base_url, readiness_path, liveness_path,
\* max_latency_ms)
ComprehensiveHealthCheck ==
    /\ health.called = ""
    /\ \E max_latency_ms \in MaxLatencies :
          \E first \in EndpointsFor(max_latency_ms * 2),
             second \in EndpointsFor(max_latency_ms * 2) :
             health' = [called |-> "comprehensive", max_latency_ms |-> max_latency_ms,
                        endpoints |-> <<first, second>>,
                        result |-> comprehensive_health_check(max_latency_ms,
                                                              <<first, second>>)]
    /\ HealthFrame

----------------------------------------------------------------------------
(* audit_repo.py *)

MaxServices == 2     \* entries of the services dict of run_batch_check (bound)

\* thresholds.http_latency_ms of the configuration: the larger of the
\* max_latency_ms values followed
http_latency_ms == CHOOSE m \in MaxLatencies : \A n \in MaxLatencies : m >= n

\* the base_url values of the services dict: a URL, or None, on which http_check
\* raises AttributeError (base_url.rstrip) outside its try block
BaseUrls == {"http://localhost:8080", NoneVal}

\* what the endpoints of a service do
EndpointSamples ==
    {[kind |-> "ok", delay |-> 0], [kind |-> "ok", delay |-> MaxDelay],
     [kind |-> "refused", delay |-> 0]}

\* services dicts: service_name -> base_url, with what the two endpoints behind
\* the URL do
ServiceDicts ==
    UNION {[1..n -> [base_url : BaseUrls, endpoints : {<<readiness, liveness>> :
                                                         readiness \in EndpointSamples,
                                                         liveness \in EndpointSamples}]] :
             n \in 0..MaxServices}

\* await comprehensive_health_check(base_url, ...)
AwaitHealthCheck(service) ==
    IF service.base_url = NoneVal
    THEN Raised("AttributeError", "'NoneType' object has no attribute 'rstrip'",
                EmptyDict)
    ELSE Returned(comprehensive_health_check(http_latency_ms, service.endpoints))

\* run_single_check without its except clause: the exception of the health
\* check reaches gather
run_single_check_raising(service_name, service) ==
    IF AwaitHealthCheck(service).raised # ""
    THEN AwaitHealthCheck(service)
    ELSE Returned([service_name |-> service_name, base_url |-> service.base_url,
                   overall_status |-> AwaitHealthCheck(service).value.overall_status,
                   readiness |-> AwaitHealthCheck(service).value.readiness,
                   liveness |-> AwaitHealthCheck(service).value.liveness])

\* AuditOrchestrator.run_single_check
run_single_check(service_name, service) ==
    IF AwaitHealthCheck(service).raised # ""
    THEN Returned([service_name |-> service_name, base_url |-> service.base_url,
                   overall_status |-> "error",
                   error |-> AwaitHealthCheck(service).message,
                   readiness |-> NoneVal, liveness |-> NoneVal])
    ELSE Returned([service_name |-> service_name, base_url |-> service.base_url,
                   overall_status |-> AwaitHealthCheck(service).value.overall_status,
                   readiness |-> AwaitHealthCheck(service).value.readiness,
                   liveness |-> AwaitHealthCheck(service).value.liveness])

\* asyncio.gather(*tasks, return_exceptions=True): what each task gave back, an
\* exception in the place of the result of a task that raised
gather(services) == [i \in 1..Len(services) |-> run_single_check(i, services[i])]

\* [r for r in results if not isinstance(r, Exception)]
successful_results(results) ==
    LET kept == {i \in 1..Len(results) : results[i].raised = ""}
        RECURSIVE Filtered(_)
        Filtered(i) == IF i > Len(results) THEN <<>>
                       ELSE IF i \in kept THEN <<results[i].value>> \o Filtered(i + 1)
                       ELSE Filtered(i + 1)
    IN  Filtered(1)

\* [str(e) for e in failed_results]
failed_results(results) ==
    LET RECURSIVE Filtered(_)
        Filtered(i) == IF i > Len(results) THEN <<>>
                       ELSE IF results[i].raised # ""
                            THEN <<results[i].message>> \o Filtered(i + 1)
                       ELSE Filtered(i + 1)
    IN  Filtered(1)

CountHealthy(results) ==
    Cardinality({i \in 1..Len(results) : results[i].overall_status = "healthy"})

\* the summary of run_batch_check from the gathered results
BatchSummary(total_services, successful, failed) ==
    [total_services |-> total_services,
     healthy_services |-> CountHealthy(successful),
     unhealthy_services |-> total_services - CountHealthy(successful),
     failed_checks |-> Len(failed),
     results |-> successful,
     errors |-> failed]

\* AuditOrchestrator.run_batch_check
run_batch_check(services) ==
    Returned(BatchSummary(Len(services), successful_results(gather(services)),
                          failed_results(gather(services))))

BatchIdle == [called |-> FALSE]

\* a call run_batch_check(services)
RunBatchCheck ==
    /\ \E services \in ServiceDicts :
          batch' = [called |-> TRUE, services |-> services,
                    outcome |-> run_batch_check(services)]
    /\ InspectorFrame
    /\ UNCHANGED <<health, checker, watcher>>

----------------------------------------------------------------------------
(* tdd_policy_check.py *)

\* the modules git may report as changed, and the files of a repository
ModuleStems == {"app", "util"}
TestsDirFiles == {"test_app.py", "util_more_test_cases.py", "conftest.py"}
OutsideFiles == {"src/test_old.py"}

\* repositories: whether ./tests exists and the files in it, the test files
\* elsewhere, and what git diff --name-only says ("" when git fails)
Repositories ==
    {[tests_dir |-> tests_dir, tests |-> tests, outside |-> outside, git |-> git,
      changed |-> changed] :
        tests_dir \in BOOLEAN, tests \in SUBSET TestsDirFiles,
        outside \in SUBSET OutsideFiles, git \in {"ok", "failed"},
        changed \in SUBSET (ModuleStems \cup {"tests/test_app"})}

\* what docker exec <container> pytest does: an exit code, TimeoutExpired, or
\* another exception (docker not installed)
DockerRuns == {"exit 0", "exit 1", "TimeoutExpired", "FileNotFoundError"}

Violation(code) == [code |-> code]

TDDCheckResult(status, violations, metrics, cmd_executed) ==
    [status |-> status, violations |-> violations, metrics |-> metrics,
     cmd_executed |-> cmd_executed]

\* _get_changed_modules: the changed .py files outside tests/
_get_changed_modules(repo) ==
    IF repo.git = "failed" THEN {}
    ELSE {path \in repo.changed : path \in ModuleStems}

\* _check_modules_have_tests: tests/test_<stem>.py, or a tests/*<stem>*test*.py
_check_modules_have_tests(repo, modules) ==
    Cardinality({stem \in modules :
                    \/ repo.tests_dir /\ ("test_" \o stem \o ".py") \in repo.tests
                    \/ repo.tests_dir /\ (stem \o "_more_test_cases.py") \in repo.tests})

\* _count_tests_in_tests_dir: the .py files with "test" in their name
_count_tests_in_tests_dir(repo) ==
    IF repo.tests_dir THEN Cardinality(repo.tests \ {"conftest.py"}) ELSE 0

ScanMetrics(repo) ==
    [tests_found |-> _count_tests_in_tests_dir(repo),
     tests_outside_tests_dir |-> Cardinality(repo.outside),
     changed_modules |-> Cardinality(_get_changed_modules(repo)),
     modules_with_tests |-> _check_modules_have_tests(repo, _get_changed_modules(repo))]

\* the violations scan appends after the tests/ directory was found
ScanViolations(repo) ==
    (IF repo.outside # {} THEN <<Violation("TESTS_OUTSIDE_DIR")>> ELSE <<>>)
    \o (IF /\ _get_changed_modules(repo) # {}
           /\ _check_modules_have_tests(repo, _get_changed_modules(repo))
                 < Cardinality(_get_changed_modules(repo))
        THEN <<Violation("TDD_HEURISTIC_FAILED")>> ELSE <<>>)

\* TDDPolicyChecker.scan, with the commands it ran
scan(repo) ==
    IF ~repo.tests_dir
    THEN [result |-> TDDCheckResult("failed", <<Violation("NO_TESTS_FOUND")>>,
                                    [tests_found |-> 0, tests_outside_tests_dir |-> 0,
                                     changed_modules |-> 0, modules_with_tests |-> 0],
                                    NoneVal),
          commands |-> <<>>]
    ELSE [result |-> TDDCheckResult(IF ScanViolations(repo) = <<>> THEN "passed"
                                    ELSE "failed",
                                    ScanViolations(repo), ScanMetrics(repo), NoneVal),
          commands |-> <<"git diff">>]

\* TDDPolicyChecker.run_tests, with the commands it ran
run_tests(container_name, docker) ==
    IF container_name = NoneVal
    THEN [result |-> TDDCheckResult("failed", <<Violation("DOCKER_EXEC_FAILED")>>,
                                    EmptyDict, NoneVal),
          commands |-> <<>>]
    ELSE IF docker \in {"exit 0", "exit 1"}
    THEN [result |-> TDDCheckResult(IF docker = "exit 0" THEN "passed" ELSE "failed",
                                    <<>>, EmptyDict, "docker exec " \o container_name
                                                     \o " pytest"),
          commands |-> <<"docker exec">>]
    ELSE [result |-> TDDCheckResult("failed", <<Violation("DOCKER_EXEC_FAILED")>>,
                                    EmptyDict, "docker exec " \o container_name
                                               \o " pytest"),
          commands |-> <<"docker exec">>]

\* faulty variant: the tests run whatever the scan found
full_check_always_tests(repo, container_name, docker) ==
    [result |-> TDDCheckResult(IF run_tests(container_name, docker).result.status = "passed"
                               THEN "passed" ELSE "failed",
                               run_tests(container_name, docker).result.violations,
                               scan(repo).result.metrics,
                               run_tests(container_name, docker).result.cmd_executed),
     commands |-> scan(repo).commands \o run_tests(container_name, docker).commands]

\* TDDPolicyChecker.full_check, with the commands it ran
full_check(repo, container_name, docker) ==
    IF scan(repo).result.status = "failed" THEN scan(repo)
    ELSE [result |-> TDDCheckResult(IF run_tests(container_name, docker).result.status
                                          = "passed"
                                    THEN "passed" ELSE "failed",
                                    run_tests(container_name, docker).result.violations,
                                    scan(repo).result.metrics,
                                    run_tests(container_name, docker).result.cmd_executed),
          commands |-> scan(repo).commands \o run_tests(container_name, docker).commands]

CheckerIdle == [called |-> ""]

\* the call that was made, its arguments and surroundings, and what it gave; a
\* TDDPolicyChecker is built for each call, so one call per behaviour is followed
CheckerCall(called, repo, container_name, docker, done) ==
    [called |-> called, repo |-> repo, container_name |-> container_name,
     docker |-> docker, result |-> done.result, commands |-> done.commands]

CheckerFrame == InspectorFrame /\ UNCHANGED <<health, batch, watcher>>

\* tdd_policy_check(action="scan")
CheckerScan ==
    /\ checker.called = ""
    /\ \E repo \in Repositories, container_name \in {NoneVal, "api"} :
          checker' = CheckerCall("scan", repo, container_name, "exit 0", scan(repo))
    /\ CheckerFrame

\* tdd_policy_check(action="run")
CheckerRunTests ==
    /\ checker.called = ""
    /\ \E container_name \in {NoneVal, "api"}, docker \in DockerRuns :
          checker' = CheckerCall("run", CHOOSE repo \in Repositories :
                                           repo.tests_dir /\ repo.tests = {}
                                           /\ repo.outside = {} /\ repo.changed = {}
                                           /\ repo.git = "ok",
                                 container_name, docker, run_tests(container_name, docker))
    /\ CheckerFrame

\* tdd_policy_check(action="full_check")
CheckerFullCheck ==
    /\ checker.called = ""
    /\ \E repo \in Repositories, container_name \in {NoneVal, "api"},
          docker \in DockerRuns :
          checker' = CheckerCall("full_check", repo, container_name, docker,
                                 full_check(repo, container_name, docker))
    /\ CheckerFrame

----------------------------------------------------------------------------
(* claude_rules.py *)

MaxThreads == 2        \* threading.Thread objects created per behaviour (bound)
MaxFileVersion == 2    \* versions of CLAUDE.md written per behaviour (bound)
MaxCalls == 3          \* tool calls counted per behaviour (bound)

\* the threads that call the tools, and the threads start_claude_watcher creates
Callers == {1, 2}
ThreadIds == 1..MaxThreads

\* a thread's place in _refresh_cache_if_needed and its locals; 0 is None
NoLocals == [pc |-> "", mtime |-> 0, content |-> 0]

\* module state after import: no cache, no thread, no event; CLAUDE.md exists
\* and can be read, its n-th version has mtime n and content n
WatcherIdle ==
    [file |-> 1,
     cached_content |-> 0,           \* _cached_content (with _cached_path)
     last_mtime |-> 0,               \* _last_mtime
     watcher_thread |-> 0,           \* _watcher_thread
     stop_event |-> 0,               \* _stop_event
     events |-> {},                  \* the Event objects that are set
     n_events |-> 0,                 \* Event objects created
     n_threads |-> 0,                \* Thread objects created
     starts |-> 0,                   \* start calls that went past the is_alive test
     calls |-> 0,                    \* tool calls begun, where they are counted
     counted |-> TRUE,               \* calls are counted, and MaxCalls are made
     threads |-> [t \in ThreadIds |-> [state |-> "none", pc |-> "", mtime |-> 0,
                                       content |-> 0]],
     callers |-> [c \in Callers |-> [op |-> "", frame |-> "", pc |-> "idle", mtime |-> 0,
                                     content |-> 0, outcome |-> Returned(EmptyDict)]]]

\* _watcher_thread and _watcher_thread.is_alive()
is_alive(w) ==
    IF w.watcher_thread = 0 THEN FALSE
    ELSE w.threads[w.watcher_thread].state = "alive"

\* one step of _refresh_cache_if_needed by a thread at `locals`: stat and the
\* comparison with _last_mtime, read_text, the assignment to _cached_content
\* (and _cached_path), the assignment to _last_mtime
_refresh_cache_if_needed(w, locals) ==
    IF locals.pc = "stat"
    THEN IF w.last_mtime = 0 \/ w.file # w.last_mtime
         THEN [cached_content |-> w.cached_content, last_mtime |-> w.last_mtime,
               locals |-> [pc |-> "read_text", mtime |-> w.file, content |-> 0]]
         ELSE [cached_content |-> w.cached_content, last_mtime |-> w.last_mtime,
               locals |-> [NoLocals EXCEPT !.pc = "refreshed"]]
    ELSE IF locals.pc = "read_text"
    THEN [cached_content |-> w.cached_content, last_mtime |-> w.last_mtime,
          locals |-> [locals EXCEPT !.pc = "set_content", !.content = w.file]]
    ELSE IF locals.pc = "set_content"
    THEN [cached_content |-> locals.content, last_mtime |-> w.last_mtime,
          locals |-> [locals EXCEPT !.pc = "set_mtime"]]
    ELSE [cached_content |-> w.cached_content, last_mtime |-> locals.mtime,
          locals |-> [NoLocals EXCEPT !.pc = "refreshed"]]

RefreshPcs == {"stat", "read_text", "set_content", "set_mtime"}

WatcherFrame == InspectorFrame /\ UNCHANGED <<health, batch, checker>>

\* the caller's record when the function of its innermost frame returns or
\* raises: the call of the tool ends, or get_cached_claude_rules goes on after
\* its start_claude_watcher call (whose result it drops; an exception goes up)
Return(caller, outcome) ==
    IF caller.op = "get" /\ caller.frame = "start" /\ outcome.raised = ""
    THEN [caller EXCEPT !.frame = "get", !.pc = "stat"]
    ELSE [caller EXCEPT !.frame = "", !.pc = "returned", !.outcome = outcome,
                        !.mtime = 0, !.content = 0]

\* the caller's record at the call of a tool
Called(op, pc) ==
    [op |-> op, frame |-> op, pc |-> pc, mtime |-> 0, content |-> 0,
     outcome |-> Returned(EmptyDict)]

CountCall(w) == IF w.counted THEN w.calls + 1 ELSE w.calls

\* a thread calls start_claude_watcher
BeginStart(c) ==
    /\ watcher.callers[c].pc \in {"idle", "returned"}
    /\ watcher.calls < MaxCalls
    /\ watcher' = [watcher EXCEPT !.callers[c] = Called("start", "is_alive"),
                                  !.calls = CountCall(watcher)]
    /\ WatcherFrame

\* a thread calls stop_claude_watcher
BeginStop(c) ==
    /\ watcher.callers[c].pc \in {"idle", "returned"}
    /\ watcher.calls < MaxCalls
    /\ watcher' = [watcher EXCEPT !.callers[c] = Called("stop", "set"),
                                  !.calls = CountCall(watcher)]
    /\ WatcherFrame

\* a thread calls get_cached_claude_rules
BeginGet(c) ==
    /\ watcher.callers[c].pc \in {"idle", "returned"}
    /\ watcher.calls < MaxCalls
    /\ watcher' = [watcher EXCEPT !.callers[c] = Called("get", "is_alive"),
                                  !.calls = CountCall(watcher)]
    /\ WatcherFrame

\* start_claude_watcher: if _watcher_thread and _watcher_thread.is_alive()
StartIsAlive(c) ==
    /\ watcher.callers[c].frame = "start"
    /\ watcher.callers[c].pc = "is_alive"
    /\ IF is_alive(watcher)
       THEN watcher' = [watcher EXCEPT !.callers[c] =
                           Return(@, Returned([success |-> TRUE, running |-> TRUE,
                                               note |-> "Watcher ya estaba activo"]))]
       ELSE /\ watcher.starts < MaxThreads
            /\ watcher' = [watcher EXCEPT !.starts = @ + 1,
                                          !.callers[c].pc = "Event"]
    /\ WatcherFrame

\* start_claude_watcher: _stop_event = threading.Event()
StartEvent(c) ==
    /\ watcher.callers[c].pc = "Event"
    /\ watcher' = [watcher EXCEPT !.n_events = @ + 1,
                                  !.stop_event = watcher.n_events + 1,
                                  !.callers[c].pc = "Thread"]
    /\ WatcherFrame

\* start_claude_watcher: _watcher_thread = threading.Thread(...)
StartThread(c) ==
    /\ watcher.callers[c].pc = "Thread"
    /\ watcher' = [watcher EXCEPT !.n_threads = @ + 1,
                                  !.watcher_thread = watcher.n_threads + 1,
                                  !.threads[watcher.n_threads + 1].state = "new",
                                  !.callers[c].pc = "start"]
    /\ WatcherFrame

\* start_claude_watcher: _watcher_thread.start(), on the thread the global
\* names now; Thread.start raises RuntimeError on a thread started before
StartStart(c) ==
    /\ watcher.callers[c].pc = "start"
    /\ IF watcher.threads[watcher.watcher_thread].state = "new"
       THEN watcher' = [watcher EXCEPT
                           !.threads[watcher.watcher_thread].state = "alive",
                           !.threads[watcher.watcher_thread].pc = "while",
                           !.callers[c].pc = "stat"]
       ELSE watcher' = [watcher EXCEPT !.callers[c] =
                           Return(@, Raised("RuntimeError",
                                            "threads can only be started once",
                                            EmptyDict))]
    /\ WatcherFrame

\* a step of the _refresh_cache_if_needed() call of start_claude_watcher or of
\* get_cached_claude_rules
CallerRefresh(c) ==
    /\ watcher.callers[c].pc \in RefreshPcs
    /\ LET caller == watcher.callers[c]
           step == _refresh_cache_if_needed(watcher, [pc |-> caller.pc,
                                                     mtime |-> caller.mtime,
                                                     content |-> caller.content])
       IN  watcher' = [watcher EXCEPT
                          !.cached_content = step.cached_content,
                          !.last_mtime = step.last_mtime,
                          !.callers[c].pc = IF step.locals.pc = "refreshed"
                                            THEN "return" ELSE step.locals.pc,
                          !.callers[c].mtime = step.locals.mtime,
                          !.callers[c].content = step.locals.content]
    /\ WatcherFrame

\* start_claude_watcher: return {"success": True, "running": True, ...}
StartReturn(c) ==
    /\ watcher.callers[c].frame = "start"
    /\ watcher.callers[c].pc = "return"
    /\ watcher' = [watcher EXCEPT !.callers[c] =
                      Return(@, Returned([success |-> TRUE, running |-> TRUE]))]
    /\ WatcherFrame

\* get_cached_claude_rules: if not (_watcher_thread and _watcher_thread.is_alive()):
\* start_claude_watcher(_poll_interval)
GetIsAlive(c) ==
    /\ watcher.callers[c].frame = "get"
    /\ watcher.callers[c].pc = "is_alive"
    /\ watcher' = [watcher EXCEPT
                      !.callers[c].frame = IF is_alive(watcher) THEN "get" ELSE "start",
                      !.callers[c].pc = IF is_alive(watcher) THEN "stat" ELSE "is_alive"]
    /\ WatcherFrame

\* get_cached_claude_rules: the cached content, or load_claude_rules() when
\* _cached_content is None
GetReturn(c) ==
    /\ watcher.callers[c].frame = "get"
    /\ watcher.callers[c].pc = "return"
    /\ watcher' = [watcher EXCEPT !.callers[c] =
                      Return(@, IF watcher.cached_content = 0
                                THEN Returned([success |-> TRUE, content |-> watcher.file,
                                               from_cache |-> FALSE])
                                ELSE Returned([success |-> TRUE,
                                               content |-> watcher.cached_content,
                                               from_cache |-> TRUE]))]
    /\ WatcherFrame

\* stop_claude_watcher: if _stop_event: _stop_event.set()
StopSet(c) ==
    /\ watcher.callers[c].frame = "stop"
    /\ watcher.callers[c].pc = "set"
    /\ watcher' = [watcher EXCEPT
                      !.events = IF watcher.stop_event = 0 THEN @
                                 ELSE @ \cup {watcher.stop_event},
                      !.callers[c].pc = "join"]
    /\ WatcherFrame

\* stop_claude_watcher: if _watcher_thread: _watcher_thread.join(timeout=2.0);
\* join returns when the thread has ended or, the thread sleeping or reading on,
\* after two seconds; on a thread not started yet it raises RuntimeError
StopJoin(c) ==
    /\ watcher.callers[c].frame = "stop"
    /\ watcher.callers[c].pc = "join"
    /\ IF watcher.watcher_thread # 0
          /\ watcher.threads[watcher.watcher_thread].state = "new"
       THEN watcher' = [watcher EXCEPT !.callers[c] =
                           Return(@, Raised("RuntimeError",
                                            "cannot join thread before it is started",
                                            EmptyDict))]
       ELSE watcher' = [watcher EXCEPT !.callers[c].pc = "return"]
    /\ WatcherFrame

\* stop_claude_watcher: running = is_alive(); return
StopReturn(c) ==
    /\ watcher.callers[c].frame = "stop"
    /\ watcher.callers[c].pc = "return"
    /\ watcher' = [watcher EXCEPT !.callers[c] =
                      Return(@, Returned([success |-> TRUE,
                                          running |-> is_alive(watcher)]))]
    /\ WatcherFrame

\* _watcher_loop: while _stop_event and not _stop_event.is_set(), on the event
\* the global names now; the sleep of the last turn ends here
WatcherWhile(t) ==
    /\ watcher.threads[t].state = "alive"
    /\ watcher.threads[t].pc = "while"
    /\ IF watcher.stop_event # 0 /\ watcher.stop_event \notin watcher.events
       THEN watcher' = [watcher EXCEPT !.threads[t].pc = "stat"]
       ELSE watcher' = [watcher EXCEPT !.threads[t].state = "dead",
                                       !.threads[t].pc = ""]
    /\ WatcherFrame

\* _watcher_loop: a step of _refresh_cache_if_needed(), then time.sleep
WatcherRefresh(t) ==
    /\ watcher.threads[t].state = "alive"
    /\ watcher.threads[t].pc \in RefreshPcs
    /\ LET thread == watcher.threads[t]
           step == _refresh_cache_if_needed(watcher, [pc |-> thread.pc,
                                                     mtime |-> thread.mtime,
                                                     content |-> thread.content])
       IN  watcher' = [watcher EXCEPT
                          !.cached_content = step.cached_content,
                          !.last_mtime = step.last_mtime,
                          !.threads[t].pc = IF step.locals.pc = "refreshed"
                                            THEN "while" ELSE step.locals.pc,
                          !.threads[t].mtime = step.locals.mtime,
                          !.threads[t].content = step.locals.content]
    /\ WatcherFrame

\* another program writes CLAUDE.md: new content, new modification time
WriteClaudeMd ==
    /\ watcher.file < MaxFileVersion
    /\ watcher' = [watcher EXCEPT !.file = @ + 1]
    /\ WatcherFrame

----------------------------------------------------------------------------
(* Specifications *)

\* nothing called yet in health.py, audit_repo.py, tdd_policy_check.py and
\* claude_rules.py
ToolsIdle ==
    /\ health = HealthIdle
    /\ batch = BatchIdle
    /\ checker = CheckerIdle
    /\ watcher = WatcherIdle

\* an inspector built from the default configuration, nothing called
InspectorIdle ==
    /\ template_file = Yaml_missing
    /\ template = _create_default_config.default
    /\ scoring_config = _create_default_config.scoring
    /\ fs = EmptyFs
    /\ ops = 0
    /\ last_call = CallIdle
    /\ dirty = FALSE
    /\ repeat = FALSE
    /\ audit = AuditIdle
    /\ calc = CalcIdle
    /\ loader = LoaderOfInspector(template_file)
    /\ guard = GuardIdle
    /\ arch = ArchIdle

InitFs ==
    {EmptyFs, EmptyService(EmptyFs, Svc), MinimalService(EmptyFs, Svc),
     FullService(EmptyFs, Svc), MessyService(EmptyFs, Svc),
     MinimalService(FullService(EmptyFs, Svc), Other),
     MessyService(EmptyService(EmptyFs, Svc), Other)}

InitInspector ==
    /\ ToolsIdle
    /\ template_file \in TemplateFiles
    /\ template = load_templates(template_file).value.default
    /\ scoring_config = load_templates(template_file).value.scoring
    /\ ops = 0
    /\ last_call = CallIdle
    /\ dirty = FALSE
    /\ repeat = FALSE
    /\ audit = AuditIdle
    /\ guard = GuardIdle
    /\ arch = ArchIdle

Init ==
    /\ InitInspector
    /\ fs \in InitFs
    /\ calc = CalcIdle
    /\ loader = LoaderOfInspector(template_file)

\* the service directories whose entries other programs change
ChangingServices == {Svc}

Environment ==
    \/ \E s \in ServiceNames : Mkdir(s)
    \/ \E s \in ChangingServices, name \in FileNames : WriteFile(s, name)
    \/ \E s \in ChangingServices, name \in FileNames : Chmod(s, name)
    \/ \E s \in ChangingServices, name \in FileNames : Unlink(s, name)
    \/ \E path \in {<<PathName(N_docs)>>} \cup {Join(<<s>>, n) : s \in ChangingServices,
                                                n \in {N_tests, N_docs}} :
          MkdirEntry(path)
    \/ \E s \in ChangingServices, filename \in TestFileNames : AddTestFile(s, filename)
    \/ EditTemplateFile

Next ==
    \/ Environment
    \/ ReloadTemplate
    \/ \E s \in ServiceNames : InspectMicroservice(s)

\* inspect_microservice calls on a changing file system
Spec == Init /\ [][Next]_vars

NextRepo ==
    \/ \E s \in ServiceNames : Mkdir(s)
    \/ \E s \in ChangingServices, name \in FileNames : Unlink(s, name)
    \/ InspectRepository

\* inspect_repository calls on a changing file system
SpecRepo == Init /\ [][NextRepo]_vars

InitScore ==
    /\ InitInspector
    /\ fs \in {EmptyFs, [EmptyFs EXCEPT ![<<PathName(N_docs)>>] = DirNode(<<>>, 0)]}
    /\ calc \in ScoreArgs \cup StatusArgs
    /\ loader = LoaderOfInspector(template_file)

NextScore == CalculateScore \/ AddWarning \/ DetermineStatus

\* direct calls of _calculate_score and _determine_status
SpecScore == InitScore /\ [][NextScore]_vars

InitLoader ==
    /\ InitInspector
    /\ fs = EmptyFs
    /\ calc = CalcIdle
    /\ loader = LoaderFresh

NextLoader ==
    \/ EditTemplateFile
    \/ GetTemplate
    \/ GetScoringConfig
    \/ ReloadTemplates
    \/ ReloadTemplate

\* a TemplateLoader, and the inspector's reload, while the template file changes
SpecLoader == InitLoader /\ [][NextLoader]_vars

InitGuard ==
    /\ ToolsIdle
    /\ template_file = Yaml_missing
    /\ template = _create_default_config.default
    /\ scoring_config = _create_default_config.scoring
    /\ fs = EmptyFs
    /\ ops = 0
    /\ last_call = CallIdle
    /\ dirty = FALSE
    /\ repeat = FALSE
    /\ audit = AuditIdle
    /\ calc = CalcIdle
    /\ loader = LoaderOfInspector(template_file)
    /\ arch = ArchIdle
    /\ \E policy \in Policies, markers \in SUBSET {N_manage, <<"settings", ".", "py">>} :
          guard = [called |-> FALSE, policy |-> policy, markers |-> markers,
                   file_path |-> <<>>, node |-> [exists |-> FALSE, readable |-> FALSE,
                                                 content |-> <<>>],
                   outcome |-> Returned(Verdict(TRUE, "", <<>>))]

NextGuard == CanCreateFile

\* can_create_file calls of guards built with each policy
SpecGuard == InitGuard /\ [][NextGuard]_vars

InitArch ==
    /\ ToolsIdle
    /\ template_file = Yaml_missing
    /\ template = _create_default_config.default
    /\ scoring_config = _create_default_config.scoring
    /\ fs = EmptyFs
    /\ ops = 0
    /\ last_call = CallIdle
    /\ dirty = FALSE
    /\ repeat = FALSE
    /\ audit = AuditIdle
    /\ calc = CalcIdle
    /\ loader = LoaderOfInspector(template_file)
    /\ guard = GuardIdle
    /\ \/ \E tree \in Trees : arch = [ArchIdle EXCEPT !.called = "tree", !.tree = tree]
       \/ \E drp \in BOOLEAN, tdd \in BOOLEAN, integration \in BOOLEAN, faker \in BOOLEAN,
             scalability \in BOOLEAN, violations \in 0..MaxViolationsProbe :
             arch = [ArchIdle EXCEPT
                        !.called = "args", !.violations = violations,
                        !.outcome = Returned(ArchitectureAnalysis(drp, tdd, integration,
                                                                  faker, scalability, <<>>))]
       \/ \E score \in 0..MaxScoreProbe :
             arch = [ArchIdle EXCEPT !.called = "probe", !.score = score]

NextArch ==
    \/ AnalyzeArchitecture
    \/ CalculateArchitectureScore
    \/ DetermineArchitectureStatus
    \/ GenerateTodoActions

\* architecture analyses of service directories, and direct calls of the score,
\* status and planning functions
SpecArch == InitArch /\ [][NextArch]_vars

InitHealth ==
    /\ InspectorIdle
    /\ ToolsIdle

NextHealth ==
    \/ ReadinessCheck
    \/ LivenessCheck
    \/ ComprehensiveHealthCheck

\* calls of the three checks of health.py against endpoints of every behaviour
SpecHealth == InitHealth /\ [][NextHealth]_vars

InitWatcher ==
    /\ InspectorIdle
    /\ ToolsIdle

CallerSteps(c) ==
    \/ StartIsAlive(c)
    \/ StartEvent(c)
    \/ StartThread(c)
    \/ StartStart(c)
    \/ CallerRefresh(c)
    \/ StartReturn(c)
    \/ GetIsAlive(c)
    \/ GetReturn(c)

WatcherSteps == \E t \in ThreadIds : WatcherWhile(t) \/ WatcherRefresh(t)

NextWatcher ==
    \/ \E c \in Callers : BeginStart(c) \/ BeginStop(c) \/ BeginGet(c)
    \/ \E c \in Callers : CallerSteps(c)
    \/ \E c \in Callers : StopSet(c) \/ StopJoin(c) \/ StopReturn(c)
    \/ WatcherSteps

\* two threads making up to MaxCalls calls of the three tools of claude_rules.py
\* in every interleaving with the watcher threads, CLAUDE.md left as it is
SpecWatcher == InitWatcher /\ [][NextWatcher]_vars

InitWatcherPolled ==
    /\ InspectorIdle
    /\ health = HealthIdle
    /\ batch = BatchIdle
    /\ checker = CheckerIdle
    /\ watcher = [WatcherIdle EXCEPT !.counted = FALSE]

\* one thread that calls get_cached_claude_rules again and again while
\* CLAUDE.md is written
NextWatcherPolled ==
    \/ WriteClaudeMd
    \/ BeginGet(1)
    \/ CallerSteps(1)
    \/ WatcherSteps

\* the same with a scheduler that lets the caller and the watcher thread run
\* whenever they can
SpecWatcherPolled ==
    /\ InitWatcherPolled
    /\ [][NextWatcherPolled]_vars
    /\ WF_vars(BeginGet(1) \/ CallerSteps(1))
    /\ WF_vars(WatcherSteps)

InitBatch ==
    /\ InspectorIdle
    /\ ToolsIdle

NextBatch == RunBatchCheck

\* run_batch_check calls on services dicts of up to MaxServices entries
SpecBatch == InitBatch /\ [][NextBatch]_vars

InitChecker ==
    /\ InspectorIdle
    /\ ToolsIdle

NextChecker ==
    \/ CheckerScan
    \/ CheckerRunTests
    \/ CheckerFullCheck

\* the three actions of tdd_policy_check on every repository and docker run
SpecChecker == InitChecker /\ [][NextChecker]_vars

----------------------------------------------------------------------------
(* Claims *)

DefaultTemplateLoaded ==
    /\ template = _create_default_config.default
    /\ scoring_config = _create_default_config.scoring

\* the latest inspect_microservice call returned a report about the files as they are
ReportCurrent == last_call.called /\ ~dirty /\ last_call.outcome.raised = ""

LastReport == last_call.outcome.value

LastPath == <<last_call.service>>

AllTrue(structure_checks) ==
    /\ structure_checks.Dockerfile
    /\ structure_checks.docker_compose_yml
    /\ structure_checks.gitignore
    /\ structure_checks.tests_dir_exists
    /\ structure_checks.tests_dir_has_files

\* Dockerfile, docker-compose.yml and .gitignore exist and tests/ holds a *.py file
AllEntriesPresent(service_path) ==
    /\ PathExists(Join(service_path, N_Dockerfile))
    /\ PathExists(Join(service_path, N_compose))
    /\ PathExists(Join(service_path, N_gitignore))
    /\ PathIsDir(Join(service_path, N_tests))
    /\ Glob(Join(service_path, N_tests), "*.py") # <<>>

\* C1: under the default template, a service directory in which Dockerfile,
\* docker-compose.yml and .gitignore exist and tests/ is a directory holding a *.py
\* file gets all five StructureChecks booleans True.
C1_AllPresentAllTrue ==
    (ReportCurrent /\ DefaultTemplateLoaded /\ AllEntriesPresent(LastPath))
        => AllTrue(LastReport.structure_checks)

RECURSIVE SumWeights(_)
SumWeights(required_files) ==
    IF required_files = <<>> THEN 0
    ELSE Head(required_files).weight + SumWeights(Tail(required_files))

ThresholdsDefined == {"complete", "incomplete"} \subseteq DOMAIN scoring_config.thresholds

\* C2: with every StructureChecks boolean True and no warning, _calculate_score
\* returns exactly the sum of the weights of the template's required_files, and
\* the status of that score is COMPLETE whenever the sum reaches the complete
\* threshold.
C2_PerfectScoreIsWeightSum ==
    LET perfect == /\ AllTrue(calc.structure_checks)
                   /\ TotalWarnings(calc.config_quality) = 0
        sum     == SumWeights(template.required_files)
    IN  /\ (calc.called = "score" /\ perfect) => calc.score = sum
        /\ (calc.called = "status" /\ perfect /\ ThresholdsDefined
            /\ sum >= scoring_config.thresholds["complete"])
               => calc.status = Returned(COMPLETE)

\* the service directory exists and holds nothing
EmptyDirectory(service_path) ==
    /\ PathIsDir(service_path)
    /\ \A e \in EntryPaths : ~PathExists(Append(service_path, e))

\* C3: under the default template, inspecting an existing empty service directory
\* gives all five booleans False, empty dockerfile, compose and gitignore warning
\* lists, the tests list ["tests directory missing"], score 0.0 and status POOR.
C3_EmptyDirectoryReport ==
    (last_call.called /\ ~dirty /\ DefaultTemplateLoaded /\ EmptyDirectory(LastPath))
        => /\ last_call.outcome.raised = ""
           /\ LastReport.structure_checks = NoChecks
           /\ LastReport.config_quality =
                  ConfigQuality(<<>>, <<>>, <<>>, <<"tests directory missing">>)
           /\ LastReport.score = 0
           /\ LastReport.status = POOR

\* C4 (as claimed): one more warning in any of the four lists lowers the value of
\* _calculate_score by exactly warning_penalty, for every StructureChecks and
\* every ConfigQuality.
C4_WarningLowersByPenalty ==
    calc.called = "add" => calc.score = calc.before - scoring_config.warning_penalty

\* C4 (amended): with a positive warning_penalty, one more warning in any of the
\* four lists takes the score s to max(0, s - warning_penalty): it lowers the
\* score by exactly warning_penalty when s >= warning_penalty and leaves it at 0
\* otherwise.
C4_WarningLowersByPenaltyClamped ==
    (calc.called = "add" /\ scoring_config.warning_penalty > 0)
        => /\ calc.score = Max(0, calc.before - scoring_config.warning_penalty)
           /\ calc.before >= scoring_config.warning_penalty
                 => calc.score = calc.before - scoring_config.warning_penalty

C4_Witness ==
    /\ calc.called = "add"
    /\ calc.before >= scoring_config.warning_penalty
    /\ calc.score < calc.before
    /\ calc.config_quality.tests_warnings # <<>>

RECURSIVE PresentWeights(_, _)
\* the weights of the template entries that exist in the service directory
PresentWeights(service_path, required_files) ==
    IF required_files = <<>> THEN 0
    ELSE LET required_file == Head(required_files)
             file_path == Join(service_path, required_file.name)
             present   == IF required_file.type = "directory"
                          THEN PathIsDir(file_path) ELSE PathExists(file_path)
         IN  (IF present THEN required_file.weight ELSE 0)
             + PresentWeights(service_path, Tail(required_files))

\* C5: the score is max(0, base + adjustment), base the sum of the weights of
\* every template entry whose presence check in the service directory passed,
\* adjustment the positive pattern weights of the dockerfile and compose blocks
\* minus total warnings x warning_penalty.
C5_ScoreFormula ==
    ReportCurrent
        => LastReport.score =
              Max(0, PresentWeights(LastPath, template.required_files) + Bonuses
                     - TotalWarnings(LastReport.config_quality)
                       * scoring_config.warning_penalty)

\* C6: _determine_status gives COMPLETE for score >= thresholds.complete,
\* otherwise INCOMPLETE for score >= thresholds.incomplete, otherwise POOR; with
\* the default thresholds 85 is COMPLETE, 65 is INCOMPLETE and 30 is POOR.
C6_StatusByThresholds ==
    (calc.called = "status" /\ ThresholdsDefined)
        => LET thresholds == scoring_config.thresholds
               expected == IF calc.probe >= thresholds["complete"] THEN COMPLETE
                           ELSE IF calc.probe >= thresholds["incomplete"] THEN INCOMPLETE
                           ELSE POOR
           IN  /\ calc.status = Returned(expected)
               /\ DefaultTemplateLoaded
                     => /\ calc.probe = 85 => calc.status.value = COMPLETE
                        /\ calc.probe = 65 => calc.status.value = INCOMPLETE
                        /\ calc.probe = 30 => calc.status.value = POOR

C6_Witness ==
    /\ calc.called = "status"
    /\ DefaultTemplateLoaded
    /\ calc.probe = scoring_config.thresholds["incomplete"]
    /\ calc.status = Returned(INCOMPLETE)

\* C7: inspect_microservice raises ValueError exactly when the service directory
\* does not exist, and for an existing directory it returns a report, whatever
\* is inside it and whatever template was loaded.
C7_OnlyValueError ==
    (last_call.called /\ ~dirty)
        => /\ last_call.outcome.raised = "ValueError" <=> ~PathExists(LastPath)
           /\ PathExists(LastPath) => last_call.outcome.raised = ""

IsErrorReport(report, service_path, error_message) ==
    /\ report.service = service_path
    /\ report.structure_checks = NoChecks
    /\ report.status = POOR
    /\ report.score = 0
    /\ \E i \in 1..Len(report.recommendations) :
          report.recommendations[i] = Recommendation("Resolver error", error_message)

\* C8: inspect_repository returns one report per path, in the order of the list;
\* a path whose inspection raised gets an error report (five booleans False,
\* POOR, 0.0, a recommendation naming the error), the others their own report.
C8_OneReportPerPath ==
    audit.called
        => /\ Len(audit.value.services) = Len(audit.service_paths)
           /\ audit.value.total_services = Len(audit.service_paths)
           /\ \A i \in 1..Len(audit.service_paths) :
                 IF audit.inner[i].raised # ""
                 THEN IsErrorReport(audit.value.services[i], audit.service_paths[i],
                                    audit.inner[i].message)
                 ELSE audit.value.services[i] = audit.inner[i].value

C8_Witness ==
    /\ audit.called
    /\ Len(audit.service_paths) = 2
    /\ audit.inner[1].raised = "ValueError"
    /\ audit.inner[2].raised = ""

\* C9: a call of inspect_microservice leaves the file system as it was: no node is
\* created or deleted, no content and no modification time changes.
C9_InspectionReadOnly ==
    [][\A s \in ServiceNames : InspectMicroservice(s) => fs' = fs]_vars

C9_Witness ==
    /\ ReportCurrent
    /\ PathExists(Join(LastPath, N_Dockerfile))
    /\ PathExists(Join(LastPath, N_compose))
    /\ PathExists(Join(LastPath, N_gitignore))
    /\ Glob(Join(LastPath, N_tests), "*.py") # <<>>

----------------------------------------------------------------------------
(* TemplateLoader claims *)

\* the files for which load_templates falls back: missing, empty, unparsable, or
\* failing model validation
FallsBack(file) == file.kind # "ok" \/ "required_files" \notin DOMAIN file.default

\* C11: load_templates, get_template and get_scoring_config never raise, and for
\* a missing, empty, unparsable or invalid template file they return the
\* hard-coded default template (weights 20, 20, 15, 15) and default scoring
\* (thresholds 80/50/0, warning_penalty 2)
C11_LoaderAlwaysSucceeds ==
    /\ loader.outcome.raised = ""
    /\ \A file \in TemplateFiles :
          /\ load_templates(file).raised = ""
          /\ FallsBack(file) => load_templates(file).value = _create_default_config
    /\ (loader.got \in {"get_template", "get_scoring_config"} /\ FallsBack(loader.source))
          => /\ loader._config = _create_default_config
             /\ loader.got = "get_template" =>
                   /\ loader.outcome.value = _create_default_config.default
                   /\ [i \in 1..4 |-> loader.outcome.value.required_files[i].name]
                         = <<N_Dockerfile, N_compose, N_gitignore, N_tests>>
                   /\ [i \in 1..4 |-> loader.outcome.value.required_files[i].weight]
                         = <<20, 20, 15, 15>>
             /\ loader.got = "get_scoring_config" =>
                   /\ loader.outcome.value = _create_default_config.scoring
                   /\ loader.outcome.value.thresholds
                         = [complete |-> 80, incomplete |-> 50, poor |-> 0]
                   /\ loader.outcome.value.warning_penalty = 2

\* a get on an empty cache answered from an empty or invalid template file
C11_Witness ==
    /\ loader.got \in {"get_template", "get_scoring_config"}
    /\ loader.source \in {Yaml_empty, Yaml_invalid}
    /\ loader.outcome.raised = ""

\* C12: once a config is cached, get_template and get_scoring_config return its
\* parts without reading the file, whatever the file has become; after
\* reload_templates the next get returns the config of the file as it is then,
\* replacing the previous one; both getters answer from the same load
C12_CacheProtocol ==
    [][ /\ (GetTemplate \/ GetScoringConfig) =>
             /\ loader'.cached
             /\ loader.cached =>
                   /\ loader'._config = loader._config
                   /\ loader'.source = loader.source
             /\ ~loader.cached =>
                   /\ loader'._config = load_templates(template_file).value
                   /\ loader'.source = template_file
             /\ loader'._config = load_templates(loader'.source).value
             /\ loader'.outcome.raised = ""
             /\ loader'.got = "get_template" =>
                   loader'.outcome.value = loader'._config.default
             /\ loader'.got = "get_scoring_config" =>
                   loader'.outcome.value = loader'._config.scoring
        /\ ReloadTemplates => ~loader'.cached
        /\ ReloadTemplate =>
             /\ template' = load_templates(template_file).value.default
             /\ scoring_config' = load_templates(template_file).value.scoring
      ]_vars

\* a cached config is returned although the file now holds another config
C12_Witness ==
    /\ loader.cached
    /\ loader.got = "get_scoring_config"
    /\ loader.source # loader.file
    /\ loader.outcome.value # load_templates(loader.file).value.scoring
    /\ loader.outcome.value = load_templates(loader.source).value.scoring

ThresholdsOrdered(config) ==
    /\ {"complete", "incomplete", "poor"} \subseteq DOMAIN config.thresholds
    /\ config.thresholds["complete"] > config.thresholds["incomplete"]
    /\ config.thresholds["incomplete"] >= config.thresholds["poor"]

\* C13: every ScoringConfig that get_scoring_config returns has the thresholds
\* complete, incomplete and poor, with complete > incomplete >= poor
C13_ThresholdsOrdered ==
    loader.got = "get_scoring_config" => ThresholdsOrdered(loader.outcome.value)

----------------------------------------------------------------------------
(* Dockerfile audit claim *)

\* C14: under whatever template the inspector holds, for a readable Dockerfile
\* "EXPOSE missing" is among the Dockerfile warnings iff the content has no
\* EXPOSE <port> match, and "uses COPY . . without .dockerignore" iff the
\* content matches COPY . .
C14_DockerfilePolarity ==
    (/\ ReportCurrent
     /\ PathExists(Join(LastPath, N_Dockerfile))
     /\ ~ReadRaises(Join(LastPath, N_Dockerfile)))
        => LET content == ReadText(Join(LastPath, N_Dockerfile))
               warnings == LastReport.config_quality.dockerfile_best_practices
           IN  /\ (\E i \in 1..Len(warnings) : warnings[i] = "EXPOSE missing")
                     <=> ~re_search(R_EXPOSE, content)
               /\ (\E i \in 1..Len(warnings) :
                        warnings[i] = "uses COPY . . without .dockerignore")
                     <=> re_search(R_COPY_ALL, content)

----------------------------------------------------------------------------
(* FilePreventor claims *)

GuardName == guard.file_path[Len(guard.file_path)]

GuardVerdict == guard.outcome.value

\* C15: with the makefiles rule enabled, a file named Makefile is rejected in any
\* directory, whatever the file and the directory hold, with the rule's message
\* and alternatives, and the call does not raise
C15_MakefileRejected ==
    (guard.called /\ GuardName = N_Makefile /\ guard.policy.makefiles.enabled)
        => /\ guard.outcome.raised = ""
           /\ ~GuardVerdict.allowed
           /\ GuardVerdict.message = guard.policy.makefiles.error_message
           /\ GuardVerdict.alternatives = guard.policy.makefiles.alternatives

\* a Makefile with content in a subdirectory of a Django service, under a policy
\* whose custom rule would raise on other names
C15_Witness ==
    /\ guard.called
    /\ guard.file_path = <<Svc, <<"scripts">>, N_Makefile>>
    /\ guard.policy.makefiles.enabled
    /\ guard.policy.other_restricted = <<LogRule(TRUE)>>
    /\ guard.node.readable
    /\ N_manage \in guard.markers
    /\ ~GuardVerdict.allowed

\* the four conditions of the Django exception
EntrypointConditions ==
    /\ GuardName = N_entrypoint
    /\ Parent(guard.file_path) = <<Svc>>
    /\ \E i \in 1..Len(guard.policy.shell_scripts.allowed_exceptions) :
          guard.policy.shell_scripts.allowed_exceptions[i] = N_entrypoint
    /\ LET configured == IF guard.policy.shell_scripts.django_microservice_patterns = <<>>
                         THEN DjangoIndicators
                         ELSE guard.policy.shell_scripts.django_microservice_patterns
       IN  \E i \in 1..Len(configured) : configured[i] \in guard.markers

\* C16 as stated: with the shell_scripts rule enabled, a *.sh file is allowed iff
\* it is entrypoint.sh in the service root, entrypoint.sh is an allowed exception
\* and a configured Django marker exists under the service root
C16_ShellScriptIff ==
    (guard.called /\ guard.policy.shell_scripts.enabled /\ _is_shell_script(GuardName))
        => /\ guard.outcome.raised = ""
           /\ GuardVerdict.allowed <=> EntrypointConditions

\* C16 amended: the same for a *.sh file whose name is not a Makefile name; a
\* *.sh file with a Makefile name (Makefile.sh) is decided by the makefiles rule
\* alone, allowed iff that rule is disabled
C16_ShellScriptIffNotMakefile ==
    (guard.called /\ guard.policy.shell_scripts.enabled /\ _is_shell_script(GuardName))
        => /\ guard.outcome.raised = ""
           /\ ~(Head(GuardName) \in {"Makefile", "makefile"})
                => (GuardVerdict.allowed <=> EntrypointConditions)
           /\ Head(GuardName) \in {"Makefile", "makefile"}
                => (GuardVerdict.allowed <=> ~guard.policy.makefiles.enabled)

\* entrypoint.sh in a subdirectory of a service with manage.py, rejected
C16_Witness ==
    /\ guard.called
    /\ guard.policy.shell_scripts.enabled
    /\ guard.file_path = <<Svc, <<"scripts">>, N_entrypoint>>
    /\ guard.policy.shell_scripts.allowed_exceptions = <<N_entrypoint>>
    /\ N_manage \in guard.markers
    /\ ~GuardVerdict.allowed

\* some occurrence of a blocked pattern lies inside no occurrence of an
\* allow-listed substring
Uncovered(content, rule) ==
    \E p \in 1..Len(rule.blocked_patterns), i \in 1..Len(content) :
        /\ i + Len(rule.blocked_patterns[p]) - 1 <= Len(content)
        /\ SubSeq(content, i, i + Len(rule.blocked_patterns[p]) - 1)
              = rule.blocked_patterns[p]
        /\ ~\E e \in 1..Len(rule.allowed_exceptions), j \in 1..i :
               /\ i + Len(rule.blocked_patterns[p]) <= j + Len(rule.allowed_exceptions[e])
               /\ j + Len(rule.allowed_exceptions[e]) - 1 <= Len(content)
               /\ SubSeq(content, j, j + Len(rule.allowed_exceptions[e]) - 1)
                     = rule.allowed_exceptions[e]

\* C17: with path prevention enabled, an existing readable file that is neither
\* a Makefile nor a *.sh file is rejected whenever its content has an occurrence
\* of a blocked pattern not covered by an allow-listed substring, and is allowed
\* (no custom rule given) when every occurrence is covered
C17_PathPrevention ==
    (/\ guard.called
     /\ guard.policy.path_prevention.enabled
     /\ guard.node.exists /\ guard.node.readable
     /\ ~_is_makefile(GuardName) /\ ~_is_shell_script(GuardName))
        => /\ Uncovered(guard.node.content, guard.policy.path_prevention)
                => (guard.outcome.raised = "" /\ ~GuardVerdict.allowed)
           /\ (/\ ~Uncovered(guard.node.content, guard.policy.path_prevention)
               /\ guard.policy.other_restricted = <<>>)
                => (guard.outcome.raised = "" /\ GuardVerdict.allowed)

----------------------------------------------------------------------------
(* AdvancedArchitectureInspector claims *)

Principles == <<"DRY", "TDD", "INTEGRATION_TESTS", "FAKER_DATA", "SCALABILITY">>

\* the compliance flag of a principle in an ArchitectureAnalysis
FlagOf(analysis, principle) ==
    CASE principle = "DRY"               -> analysis.drp_compliance
      [] principle = "TDD"               -> analysis.tdd_implementation
      [] principle = "INTEGRATION_TESTS" -> analysis.integration_tests
      [] principle = "FAKER_DATA"        -> analysis.faker_data_usage
      [] principle = "SCALABILITY"       -> analysis.scalability_features

\* how many elements of the list are about the principle
CountPrinciple(list, principle) ==
    Cardinality({i \in 1..Len(list) : list[i].principle = principle})

FalseFlags(analysis) ==
    Cardinality({i \in 1..Len(Principles) : ~FlagOf(analysis, Principles[i])})

\* C18: an analysis returned for a directory that did not change during the call
\* holds exactly one violation for each principle whose flag is False and none
\* for a compliant one, with severities DRY HIGH, TDD CRITICAL, INTEGRATION_TESTS
\* HIGH, FAKER_DATA MEDIUM, SCALABILITY MEDIUM; total_violations is the number of
\* False flags and the four severity counters add up to it
C18_ViolationsMatchFlags ==
    (arch.called = "analyze" /\ arch.outcome.raised = "" /\ arch.later = arch.tree)
        => LET analysis == arch.outcome.value
           IN  /\ \A i \in 1..Len(Principles) :
                     CountPrinciple(analysis.violations, Principles[i])
                        = IF FlagOf(analysis, Principles[i]) THEN 0 ELSE 1
               /\ \A i \in 1..Len(analysis.violations) :
                     analysis.violations[i].severity
                        = CASE analysis.violations[i].principle = "TDD" -> "CRITICAL"
                            [] analysis.violations[i].principle
                                  \in {"DRY", "INTEGRATION_TESTS"} -> "HIGH"
                            [] OTHER -> "MEDIUM"
               /\ analysis.total_violations = FalseFlags(analysis)
               /\ analysis.critical_violations + analysis.high_violations
                  + analysis.medium_violations + analysis.low_violations
                     = analysis.total_violations

\* an unchanged directory with compliant and non-compliant principles
C18_Witness ==
    /\ arch.called = "analyze"
    /\ arch.outcome.raised = ""
    /\ arch.later = arch.tree
    /\ arch.outcome.value.tdd_implementation
    /\ arch.outcome.value.scalability_features
    /\ ~arch.outcome.value.drp_compliance
    /\ ~arch.outcome.value.integration_tests
    /\ arch.outcome.value.total_violations = 2

\* the points of the compliant principles
Points(analysis) ==
    (IF analysis.drp_compliance THEN 20 ELSE 0)
    + (IF analysis.tdd_implementation THEN 25 ELSE 0)
    + (IF analysis.integration_tests THEN 20 ELSE 0)
    + (IF analysis.faker_data_usage THEN 15 ELSE 0)
    + (IF analysis.scalability_features THEN 20 ELSE 0)

\* the status band of a score
Band(score) ==
    CASE score >= 80 -> "EXCELLENT"
      [] score < 80 /\ score >= 60 -> "GOOD"
      [] score < 60 /\ score >= 40 -> "FAIR"
      [] score < 40 /\ score >= 20 -> "POOR"
      [] score < 20 -> "CRITICAL"

\* C19: the score is max(0, 20 DRY + 25 TDD + 20 integration + 15 faker
\* + 20 scalability - 5 per violation) and lies in 0..100; the status is
\* EXCELLENT, GOOD, FAIR, POOR, CRITICAL for score >= 80, >= 60, >= 40, >= 20,
\* below 20; an analysis with no compliant principle has score 0 and status
\* CRITICAL
C19_ScoreAndStatus ==
    /\ arch.called = "score"
          => /\ arch.score = Max(0, Points(arch.outcome.value) - 5 * arch.violations)
             /\ arch.score \in 0..100
    /\ arch.called = "status" => arch.status = Band(arch.score)
    /\ (arch.called = "analyze" /\ arch.outcome.raised = "")
          => LET analysis == arch.outcome.value
             IN  /\ analysis.architecture_score
                       = Max(0, Points(analysis) - 5 * analysis.total_violations)
                 /\ analysis.architecture_score \in 0..100
                 /\ analysis.architecture_status = Band(analysis.architecture_score)
                 /\ FalseFlags(analysis) = 5
                       => /\ analysis.architecture_score = 0
                          /\ analysis.architecture_status = "CRITICAL"

\* a directory with no compliant principle: five violations, score 0, CRITICAL
C19_Witness ==
    /\ arch.called = "analyze"
    /\ arch.outcome.raised = ""
    /\ FalseFlags(arch.outcome.value) = 5
    /\ arch.outcome.value.total_violations = 5
    /\ arch.outcome.value.architecture_score = 0
    /\ arch.outcome.value.architecture_status = "CRITICAL"

\* the position of a principle in generation order
GenerationIndex(principle) == CHOOSE i \in 1..Len(Principles) : Principles[i] = principle

\* C20: generate_todo_actions returns one action for each non-compliant
\* principle and none for a compliant one, in non-decreasing priority rank with
\* equal ranks in generation order; the TDD action precedes the scalability
\* action whenever both are there
C20_TodoActionsOrdered ==
    arch.called = "todo"
        => LET analysis == arch.outcome.value
               todo_actions == arch.todo_actions
           IN  /\ \A i \in 1..Len(Principles) :
                     CountPrinciple(todo_actions, Principles[i])
                        = IF FlagOf(analysis, Principles[i]) THEN 0 ELSE 1
               /\ \A i, j \in 1..Len(todo_actions) :
                     i < j =>
                        \/ PriorityRank(todo_actions[i].priority)
                              < PriorityRank(todo_actions[j].priority)
                        \/ /\ PriorityRank(todo_actions[i].priority)
                                 = PriorityRank(todo_actions[j].priority)
                           /\ GenerationIndex(todo_actions[i].principle)
                                 < GenerationIndex(todo_actions[j].principle)
               /\ (~analysis.tdd_implementation /\ ~analysis.scalability_features)
                     => \E i, j \in 1..Len(todo_actions) :
                           /\ i < j
                           /\ todo_actions[i].principle = "TDD"
                           /\ todo_actions[j].principle = "SCALABILITY"

\* DRY, TDD and scalability are non-compliant: the TDD action, generated second,
\* comes first
C20_Witness ==
    /\ arch.called = "todo"
    /\ ~arch.outcome.value.drp_compliance
    /\ ~arch.outcome.value.tdd_implementation
    /\ ~arch.outcome.value.scalability_features
    /\ arch.todo_actions[1].principle = "TDD"
    /\ arch.todo_actions[2].principle = "DRY"

\* C21: integration-test compliance is True iff (a) some .py file has
\* "integration" in its name, or (b) some test file, whatever its name, has
\* content matching the integration/e2e marker regex, or (c) some
\* docker-compose*.yml file has content matching the docker-compose-test regex
C21_IntegrationSignals ==
    (arch.called = "analyze" /\ arch.outcome.raised = "")
        => (arch.outcome.value.integration_tests
              <=> \E i \in 1..Len(arch.tree.entries) :
                     LET e == arch.tree.entries[i]
                     IN  \/ NameMatches(e.name, "*integration*.py")
                         \/ /\ NameMatches(e.name, "test_*.py")
                                 \/ NameMatches(e.name, "*_test.py")
                            /\ Reads(e)
                            /\ re_search(integration_patterns.integration_markers,
                                         e.content)
                         \/ /\ NameMatches(e.name, "docker-compose*.yml")
                            /\ Reads(e)
                            /\ re_search(integration_patterns.docker_compose_tests,
                                         e.content))

----------------------------------------------------------------------------
(* Repository audit claim *)

\* C29: in the audit inspect_repository returns, the three status counters add up
\* to total_services, which is the number of reports; average_score is the sum of
\* the scores over the number of services, and 0 for no service; overall_status
\* is COMPLETE iff every report is COMPLETE, INCOMPLETE iff not all are COMPLETE
\* and none is POOR, POOR iff some report is POOR
C29_AuditAggregates ==
    audit.called
        => LET value == audit.value
               statuses == {value.services[i].status : i \in 1..Len(value.services)}
           IN  /\ value.total_services = Len(value.services)
               /\ value.complete_services + value.incomplete_services
                  + value.poor_services = value.total_services
               /\ value.complete_services
                     = Cardinality({i \in 1..Len(value.services) :
                                       value.services[i].status = COMPLETE})
               /\ value.poor_services
                     = Cardinality({i \in 1..Len(value.services) :
                                       value.services[i].status = POOR})
               /\ IF Len(value.services) = 0
                  THEN value.average_score = [num |-> 0, den |-> 1]
                  ELSE value.average_score
                          = [num |-> SumSeq([i \in 1..Len(value.services) |->
                                                value.services[i].score]),
                             den |-> Len(value.services)]
               /\ value.overall_status = COMPLETE <=> statuses \subseteq {COMPLETE}
               /\ value.overall_status = INCOMPLETE
                     <=> (~(statuses \subseteq {COMPLETE}) /\ POOR \notin statuses)
               /\ value.overall_status = POOR <=> POOR \in statuses

\* a COMPLETE and an INCOMPLETE service: the repository is INCOMPLETE
C29_Witness ==
    /\ audit.called
    /\ audit.value.total_services = 2
    /\ audit.value.complete_services = 1
    /\ audit.value.incomplete_services = 1
    /\ audit.value.overall_status = INCOMPLETE

----------------------------------------------------------------------------
(* FilePreventor: order of the checks *)

\* C27: can_create_file decides by the first applicable check, in the order
\* Makefile name, *.sh name, relative-path content, custom rules: a Makefile name
\* is decided by the makefiles rule alone and, failing that, a *.sh name by the
\* shell_scripts rule alone (a disabled rule allows the file, whatever the file
\* holds and whatever the custom rules are, and the call does not raise);
\* a file of another name with a problematic relative path is rejected by the
\* path rule before any custom rule is tried; an allowed verdict has an empty
\* message and no alternatives
C27_FirstApplicableCheck ==
    guard.called
        => /\ _is_makefile(GuardName)
                => guard.outcome
                      = IF guard.policy.makefiles.enabled
                        THEN Returned(Verdict(FALSE, guard.policy.makefiles.error_message,
                                              guard.policy.makefiles.alternatives))
                        ELSE Returned(Verdict(TRUE, "", <<>>))
           /\ (~_is_makefile(GuardName) /\ _is_shell_script(GuardName))
                => guard.outcome
                      = IF guard.policy.shell_scripts.enabled /\ ~EntrypointConditions
                        THEN Returned(Verdict(FALSE,
                                              guard.policy.shell_scripts.error_message,
                                              guard.policy.shell_scripts.alternatives))
                        ELSE Returned(Verdict(TRUE, "", <<>>))
           /\ ( /\ ~_is_makefile(GuardName)
                /\ ~_is_shell_script(GuardName)
                /\ _has_problematic_relative_paths(guard.node, guard.policy.path_prevention) )
                => guard.outcome
                      = Returned(Verdict(FALSE, guard.policy.path_prevention.error_message,
                                         guard.policy.path_prevention.alternatives))
           /\ (guard.outcome.raised = "" /\ GuardVerdict.allowed)
                => (GuardVerdict.message = "" /\ GuardVerdict.alternatives = <<>>)

\* a shell script with a problematic relative path, under a disabled
\* shell_scripts rule, an enabled path rule and a custom rule that cannot be
\* compiled: allowed
C27_Witness ==
    /\ guard.called
    /\ GuardName = <<"deploy", ".", "sh">>
    /\ ~guard.policy.shell_scripts.enabled
    /\ guard.policy.path_prevention.enabled
    /\ _has_problematic_relative_paths(guard.node, guard.policy.path_prevention)
    /\ guard.policy.other_restricted = <<LogRule(TRUE)>>
    /\ guard.outcome.raised = ""
    /\ GuardVerdict.allowed

----------------------------------------------------------------------------
(* health.py claims *)

\* C25: comprehensive_health_check reports "healthy" iff the readiness result and
\* the liveness result are both HEALTHY after the latency adjustment, and
\* "unhealthy" otherwise, a DEGRADED readiness included; the first request of
\* the call is the readiness one, the second the liveness one
C25_OverallStatus ==
    health.called = "comprehensive"
        => LET max_latency_ms == health.max_latency_ms
               result == health.result
           IN  /\ result.overall_status \in {"healthy", "unhealthy"}
               /\ result.overall_status = "healthy"
                     <=> (result.readiness.status = HEALTHY
                          /\ result.liveness.status = HEALTHY)
               /\ result.overall_status = "healthy"
                     <=> \A i \in 1..2 : /\ health.endpoints[i].kind = "ok"
                                         /\ health.endpoints[i].delay <= max_latency_ms
               /\ result.readiness.status = DEGRADED => result.overall_status = "unhealthy"
               /\ result.readiness.latency_ms = health.endpoints[1].delay
               /\ result.liveness.latency_ms = health.endpoints[2].delay
               /\ result.readiness.status = DEGRADED
                     <=> (health.endpoints[1].kind = "ok"
                          /\ health.endpoints[1].delay > max_latency_ms)

\* a slow readiness answer and a quick liveness answer: unhealthy
C25_Witness ==
    /\ health.called = "comprehensive"
    /\ health.result.readiness.status = DEGRADED
    /\ health.result.liveness.status = HEALTHY
    /\ health.endpoints[1].delay # health.endpoints[2].delay
    /\ health.result.overall_status = "unhealthy"

\* C26: readiness_check and liveness_check probe with the timeout
\* 2 * max_latency_ms; a HEALTHY probe result with latency_ms > max_latency_ms
\* becomes DEGRADED for readiness and UNHEALTHY for liveness; a result with
\* latency_ms <= max_latency_ms, or an UNHEALTHY one, keeps its status
C26_LatencyRule ==
    health.called \in {"readiness", "liveness"}
        => LET max_latency_ms == health.max_latency_ms
               endpoint == health.endpoints[1]
               result == health.result
           IN  /\ result.client_timeout = 2 * max_latency_ms
               /\ result.latency_ms = endpoint.delay
               /\ (endpoint.kind = "ok" /\ endpoint.delay > max_latency_ms)
                     => result.status = IF health.called = "readiness"
                                        THEN DEGRADED ELSE UNHEALTHY
               /\ (endpoint.kind = "ok" /\ endpoint.delay <= max_latency_ms)
                     => (result.status = HEALTHY /\ result.error_message = NoneVal)
               /\ endpoint.kind # "ok"
                     => /\ result.status = UNHEALTHY
                        /\ result.error_message
                              = IF endpoint.kind = "http error" THEN "HTTP 500"
                                ELSE IF endpoint.kind = "timeout" THEN "Timeout"
                                ELSE "Connection refused"

\* a readiness answer slower than max_latency_ms, inside the timeout
C26_Witness ==
    /\ health.called = "readiness"
    /\ health.endpoints[1].kind = "ok"
    /\ health.endpoints[1].delay > health.max_latency_ms
    /\ health.endpoints[1].delay < 2 * health.max_latency_ms
    /\ health.result.status = DEGRADED

----------------------------------------------------------------------------
(* claude_rules.py claims *)

\* C22: while the watcher runs, once CLAUDE.md has its new content and
\* modification time, a get_cached_claude_rules call eventually returns
\* success = True with the new content, the caller and the watcher thread being
\* scheduled fairly
C22_WatcherLiveness ==
    (watcher.file = MaxFileVersion /\ is_alive(watcher))
        ~> ( /\ watcher.callers[1].op = "get"
             /\ watcher.callers[1].pc = "returned"
             /\ watcher.callers[1].outcome.raised = ""
             /\ watcher.callers[1].outcome.value.success
             /\ watcher.callers[1].outcome.value.content = MaxFileVersion )

\* C23: at most one watcher thread is alive at any time, whatever the
\* interleaving of start_claude_watcher, stop_claude_watcher and
\* get_cached_claude_rules calls of two callers, and every start_claude_watcher
\* call returns success = True, running = True
C23_OneWatcherThread ==
    /\ Cardinality({t \in ThreadIds : watcher.threads[t].state = "alive"}) <= 1
    /\ \A c \in Callers :
          (watcher.callers[c].op = "start" /\ watcher.callers[c].pc = "returned")
              => /\ watcher.callers[c].outcome.raised = ""
                 /\ watcher.callers[c].outcome.value.success
                 /\ watcher.callers[c].outcome.value.running

\* C28: when start_claude_watcher returns running = True, the thread
\* _watcher_thread names is alive and the stop event its loop tests is not set,
\* so that it polls until a stop_claude_watcher call; also right after a
\* stop_claude_watcher whose join timed out
C28_RunningMeansPolling ==
    [][ \A c \in Callers :
           ( /\ watcher.callers[c].pc # "returned"
             /\ watcher'.callers[c].pc = "returned"
             /\ watcher'.callers[c].op = "start"
             /\ watcher'.callers[c].outcome.raised = ""
             /\ watcher'.callers[c].outcome.value.running )
              => ( /\ is_alive(watcher')
                   /\ watcher'.stop_event # 0
                   /\ watcher'.stop_event \notin watcher'.events ) ]_vars

----------------------------------------------------------------------------
(* audit_repo.py claim *)

\* the services of the batch whose health check raises
RaisingServices == {i \in 1..Len(batch.services) : AwaitHealthCheck(batch.services[i]).raised # ""}

\* C24: run_batch_check over N services does not raise, returns
\* total_services = N and healthy_services + unhealthy_services = N; a service
\* whose health check raises is counted as unhealthy, has one entry in errors
\* (counted in failed_checks) and none in results, and
\* len(results) + len(errors) = N
C24_BatchIsolation ==
    batch.called
        => /\ batch.outcome.raised = ""
           /\ LET summary == batch.outcome.value
                  N == Len(batch.services)
              IN  /\ summary.total_services = N
                  /\ summary.healthy_services + summary.unhealthy_services = N
                  /\ summary.unhealthy_services >= Cardinality(RaisingServices)
                  /\ Len(summary.errors) = Cardinality(RaisingServices)
                  /\ summary.failed_checks = Cardinality(RaisingServices)
                  /\ \A i \in RaisingServices :
                        ~\E k \in 1..Len(summary.results) :
                            summary.results[k].service_name = i
                  /\ Len(summary.results) + Len(summary.errors) = N

----------------------------------------------------------------------------
(* tdd_policy_check.py claim *)

\* the repository breaks the policy: no tests/ directory, a test file outside
\* tests/, or a changed module with no test
BreaksPolicy(repo) ==
    \/ ~repo.tests_dir
    \/ repo.outside # {}
    \/ /\ repo.git = "ok"
       /\ \E stem \in repo.changed \cap ModuleStems :
             /\ ("test_" \o stem \o ".py") \notin repo.tests
             /\ (stem \o "_more_test_cases.py") \notin repo.tests

\* C30: full_check runs docker exec only after a scan that passed; with a
\* violation of the policy it returns the result of scan, status failed, and
\* runs no test; with a passing scan the status is passed iff the test run
\* ended with exit code 0
C30_TestsOnlyAfterPassingScan ==
    checker.called = "full_check"
        => LET ran == \E i \in 1..Len(checker.commands) : checker.commands[i] = "docker exec"
           IN  /\ ran => (~BreaksPolicy(checker.repo)
                          /\ checker.commands = <<"git diff", "docker exec">>)
               /\ BreaksPolicy(checker.repo)
                     => /\ checker.result.status = "failed"
                        /\ checker.result.violations # <<>>
                        /\ checker.result.cmd_executed = NoneVal
                        /\ \A i \in 1..Len(checker.result.violations) :
                              checker.result.violations[i].code # "DOCKER_EXEC_FAILED"
                        /\ ~ran
               /\ ~BreaksPolicy(checker.repo)
                     => (checker.result.status = "passed"
                           <=> (ran /\ checker.docker = "exit 0"))

\* a test file outside tests/, a container whose tests would pass: failed, and
\* only git was run
C30_Witness ==
    /\ checker.called = "full_check"
    /\ checker.repo.tests_dir
    /\ checker.repo.outside # {}
    /\ checker.container_name = "api"
    /\ checker.docker = "exit 0"
    /\ checker.result.status = "failed"
    /\ checker.commands = <<"git diff">>

====
